---------------------------- MODULE Spec2Model ----------------------------
(***************************************************************************)
(* Model of the archive-processing core of the auto extractor              *)
(* (src/自动解压工具_GUI_v7.02.py).                                          *)
(*                                                                         *)
(*   SpecRun : run_cmd, the process execution monitor: the calling thread  *)
(*             (reader loop), the watchdog thread `monitor`, the child     *)
(*             process and a clock counting seconds.                       *)
(*   Spec    : _handle_one_archive, the extraction orchestrator, for one   *)
(*             archive, with the user's stop request arriving at any time. *)
(*   SpecNames : is_multipart_first, normalize_extension, gather_archives  *)
(*             and the source deletion, on the file names of a directory.  *)
(*   SpecBatch : the start and stop buttons, _work_full (sequential) and   *)
(*             on_extract_selected (thread pool), _finish_run and          *)
(*             _do_end_action.                                             *)
(*   SpecPwd : infer_password and its cache, for the archives of one       *)
(*             directory whose hint files change.                          *)
(*   SpecCmd : the four command builders.                                  *)
(*   SpecFind : find_on_path and the choice of the two executables.        *)
(***************************************************************************)
EXTENDS Integers, Sequences, FiniteSets, TLC

(***************************************************************************)
(* Bounds of the model.                                                    *)
(***************************************************************************)
MaxTime == 9
MinQuiet == 3
MaxQuiet == 4
MaxLines == 2
MaxDir == 1
MaxNested == 2
MaxPart == 11
MaxArchives == 2
MaxSel == 2
MaxWorkers == 2

(***************************************************************************)
(* Program constants.                                                      *)
(***************************************************************************)
PollInterval == 2
JoinTimeout == 5
RC_CANCEL == -1
RC_NOTFOUND == 9001
RC_ERROR == 9002

\* Exit codes a child can end with: success, and one engine error code.
ExitCodes == {0, 2}

NoRc == "none"

VARIABLES
  \* ---- shared
  stop_flag,      \* self.stop_flag (threading.Event)
  \* ---- run_cmd: parameters and locals
  quiet_limit,    \* parameter quiet_limit
  monitor_dir,    \* TRUE iff a monitor_dir was given
  last_activity,  \* nonlocal last_activity
  mon_stop,       \* mon_stop (threading.Event)
  rpc,            \* position of the calling thread inside run_cmd
  rc,             \* value returned by run_cmd
  \* ---- run_cmd: the watchdog thread
  mpc,            \* position of monitor()
  mnow,           \* monitor's local `now`
  last_sz,        \* monitor's local last_sz
  wake,           \* time at which time.sleep(2) ends
  \* ---- run_cmd: the environment
  now,            \* time.time(), in seconds
  child,          \* "none" | "running" | "exited" | "terminated"
  childCode,      \* p.returncode once the child has exited
  pipe,           \* lines written by the child and not yet read
  written,        \* lines written by the child so far
  dirSize,        \* dir_size_bytes(monitor_dir) right now
  joinAt,         \* time at which t_mon.join started
  \* ---- run_cmd: history of what reached the sink
  nLine,          \* output lines logged
  nSize,          \* size-report lines logged
  nBeat,          \* heartbeat lines logged
  lastEvt,        \* time of the last line, size report or heartbeat (or start)
  beatGap,        \* silence that preceded the last heartbeat
  killed,         \* p.terminate() was called
  stopAtCall,     \* stop_flag was set when run_cmd was called
  stopAge,        \* seconds since stop_flag was set, saturating
  \* ---- settings read by _handle_one_archive
  var_pretest,    \* self.var_pretest
  var_cross_try,  \* self.var_cross_try
  var_nested,     \* self.var_nested
  var_delete,     \* self.var_delete
  bzOk,           \* the configured Bandizip path is a file
  szOk,           \* the configured 7-Zip path is a file
  bzAuto,         \* find_on_path(['bz.exe']) finds something
  szAuto,         \* find_on_path(['7z.exe']) finds something
  \* ---- _handle_one_archive: the archive and the locals
  sig,            \* sniff_signature(arc)
  disk,           \* files present beside the archive (its family and others)
  first,          \* engine chosen as first:  "none" | "bandizip" | "7zip"
  second,         \* engine chosen as second: "none" | "7zip"
  opc,            \* position inside _handle_one_archive
  ok,             \* local ok
  nestedLeft,     \* files of out_dir the walk of _extract_nested has not visited
  count,          \* local count of _extract_nested
  \* ---- the run_cmd call in flight
  cpc,            \* "none" | "popen" | "check" | "readline" | "returned"
  cur,            \* the call: [kind, slot, eng]
  crc,            \* its return value, once cpc = "returned"
  \* ---- history
  invoked,        \* calls started, in order
  rets,           \* calls returned, in order, with their return values
  posted,         \* kinds of outcome lines posted to the sink
  pwdInferred,    \* infer_password was called for the archive
  mkdirCalled,    \* out_dir.mkdir was called for the archive
  autoTried,      \* find_on_path was called for the archive
  ndir,           \* files now in out_dir
  ndel,           \* files of out_dir that _extract_nested has unlinked
  nestedArcs,     \* files of out_dir a nested extract command was started on
  \* ---- a directory of archives: discovery and source deletion
  fam,            \* the family under test: [conv, w, k]
  listing,        \* the directory's file names, in traversal order
  ndisk,          \* the names now on disk
  locked,         \* the names whose unlink raises
  npc,            \* "classify" | "gather" | "handle" | "unlink" | "end"
  ci,             \* next file to classify
  cls,            \* is_multipart_first of the files classified so far
  gi,             \* next file of the walk of gather_archives
  found,          \* local found of gather_archives
  delArc,        \* the archive whose sources are being deleted
  todo,           \* siblings still to unlink
  removed,        \* local removed (line 828)
  reported,       \* the count in the deletion line (line 832)
  \* ---- batches: the window
  btnStart,       \* state of btn_start1
  btnStop,        \* state of btn_stop1
  cancelReq,      \* batches that were processing when on_stop ran
  \* ---- batches: _work_full
  fpc,            \* position of the worker thread, then of its end report
  ftotal,         \* local total
  fidx,           \* local idx
  fdone,          \* local done
  fstarted,       \* archives handed to _handle_one_archive, in order
  fprog,          \* done values handed to _update_progress, in order
  fstopped,       \* argument of the scheduled _finish_run
  fobserved,      \* the loop was left on a set flag
  fUnderStop,     \* an archive was started although the flag was set
  \* ---- batches: on_extract_selected
  spc,            \* position of worker_selected, then of its end report
  workers,        \* local workers
  task,           \* state of each future
  done_cnt,       \* done_cnt['n']
  nloc,           \* local n of each task
  sprog,          \* done values handed to _update_progress, in order
  yielded,        \* futures as_completed has yielded
  sstopped,       \* argument of the scheduled _finish_run
  \* ---- infer_password: the directory of the archive
  parentName,     \* arc.parent.name
  dirFiles,       \* what arc.parent.iterdir() yields, in its order
  listable,       \* FALSE iff arc.parent.iterdir() raises
  \* ---- infer_password: the process
  cache,          \* the default argument `cache`, one dict for all calls
  calls,          \* calls of infer_password so far, counted up to two
  arcName,        \* arc.name of the last call
  result,         \* what the last call returned
  readFiles,      \* names of the files the last call read, in order
  reached,        \* the last call went past the parent directory name
  prevArc,        \* arcName, result and reached of the call before
  prevResult,
  prevReached,
  changedSince,   \* the directory changed after the last call
  changedBetween, \* the directory changed between the last two calls
  stale,          \* the directory changed after its result was cached
  \* ---- the command builders
  bpc,            \* "args" before the call of a builder, "built" after
  bKind,          \* what the command is for: test, extract, nested
  bEngine,        \* the engine the command is built for
  password,       \* argument password
  policy,         \* argument policy
  cmd,            \* the list the builder returned
  \* ---- the choice of the executables
  whichHit,       \* the names shutil.which finds on PATH
  present,        \* the candidates of find_on_path that are files
  cfgBz,          \* the configured Bandizip path is a file
  cfgSz,          \* the configured 7-Zip path is a file
  epc,            \* "start" before the choice, "chosen" after
  toolFirst,      \* local first: a pair of engine name and executable
  toolSecond,     \* local second
  \* ---- the output directories of a batch
  var_out,        \* the output root is configured
  rootIsDir,      \* the root field names a directory
  osel,           \* the archives of the batch, one worker task each
  oworkers,       \* size of the pool
  otask,          \* per task: "pending", "extracting", "returned"
  out_dir         \* per task: local out_dir of _handle_one_archive

runVars == <<quiet_limit, monitor_dir, last_activity, mon_stop, rpc, rc,
             mpc, mnow, last_sz, wake, now, child, childCode, pipe, written,
             dirSize, joinAt, nLine, nSize, nBeat, lastEvt, beatGap, killed,
             stopAtCall, stopAge>>

orchVars == <<var_pretest, var_cross_try, var_nested, var_delete, bzOk, szOk,
              bzAuto, szAuto, sig, disk, first, second, opc, ok, nestedLeft,
              count, cpc, cur, crc, invoked, rets, posted, pwdInferred,
              mkdirCalled, autoTried, ndir, ndel, nestedArcs>>

\* What only the preparation of _handle_one_archive writes.
prepVars == <<pwdInferred, mkdirCalled, autoTried>>

\* What only _extract_nested writes.
nestVars == <<ndir, ndel, nestedArcs>>

nameVars == <<fam, listing, ndisk, locked, npc, ci, cls, gi, found, delArc,
              todo, removed, reported>>

guiVars == <<btnStart, btnStop>>

fullVars == <<fpc, ftotal, fidx, fdone, fstarted, fprog, fstopped, fobserved,
              fUnderStop>>

selVars == <<spc, workers, task, done_cnt, nloc, sprog, yielded, sstopped>>

batchVars == <<guiVars, cancelReq, fullVars, selVars>>

pwdVars == <<parentName, dirFiles, listable, cache, calls, arcName, result,
             readFiles, reached, prevArc, prevResult, prevReached,
             changedSince, changedBetween, stale>>

cmdVars == <<bpc, bKind, bEngine, password, policy, cmd>>

findVars == <<whichHit, present, cfgBz, cfgSz, epc, toolFirst, toolSecond>>

outVars == <<var_out, rootIsDir, osel, oworkers, otask, out_dir>>

textVars == <<pwdVars, cmdVars, findVars, outVars>>

vars == <<stop_flag, runVars, orchVars, nameVars, batchVars, textVars>>

(***************************************************************************)
(* run_cmd                                                                 *)
(***************************************************************************)

RunInit ==
  /\ quiet_limit \in MinQuiet..MaxQuiet
  /\ monitor_dir \in BOOLEAN
  /\ last_activity = 0
  /\ mon_stop = FALSE
  /\ rpc = "call"
  /\ rc = NoRc
  /\ mpc = "none"
  /\ mnow = 0
  /\ last_sz = -1
  /\ wake = 0
  /\ now = 0
  /\ child = "none"
  /\ childCode = NoRc
  /\ pipe = 0
  /\ written = 0
  /\ dirSize = 0
  /\ joinAt = 0
  /\ nLine = 0
  /\ nSize = 0
  /\ nBeat = 0
  /\ lastEvt = 0
  /\ beatGap = 0
  /\ killed = FALSE
  /\ stopAtCall = FALSE
  /\ stopAge = 0

\* Lines 348-354, 380-381 and the except clauses 397-401: last_activity is
\* stamped, the child is started and the watchdog thread with it; a command
\* that cannot be started returns 9001 (not found) or 9002 (other error).
RunPopen ==
  /\ rpc = "call"
  /\ last_activity' = now
  /\ lastEvt' = now
  /\ stopAtCall' = stop_flag
  /\ \E outcome \in {"ok", "notfound", "error"} :
       \/ /\ outcome = "ok"
          /\ child' = "running"
          /\ mon_stop' = FALSE
          /\ mpc' = "loop"
          /\ rpc' = "check"
          /\ rc' = rc
       \/ /\ outcome = "notfound"
          /\ rc' = RC_NOTFOUND
          /\ rpc' = "done"
          /\ UNCHANGED <<child, mon_stop, mpc>>
       \/ /\ outcome = "error"
          /\ rc' = RC_ERROR
          /\ rpc' = "done"
          /\ UNCHANGED <<child, mon_stop, mpc>>
  /\ UNCHANGED <<textVars,
                 orchVars, nameVars, batchVars, stop_flag, quiet_limit, monitor_dir, mnow, last_sz, wake, now,
                 childCode, pipe, written, dirSize, joinAt, nLine, nSize,
                 nBeat, beatGap, killed, stopAge>>

\* Variant of CancelRequested: the flag is looked at only once a line has
\* been read (a loop that tests after its body).
M_CancelRequested == stop_flag /\ nLine > 0

\* Line 384: stop_flag.is_set().
CancelRequested == stop_flag

\* Lines 383-387: the top of the read loop. With stop_flag set the child is
\* terminated, the watchdog told to stop and -1 returned (no join).
ReaderCheckStop ==
  /\ rpc = "check"
  /\ IF CancelRequested
       THEN /\ child' = IF child = "running" THEN "terminated" ELSE child
            /\ killed' = TRUE
            /\ mon_stop' = TRUE
            /\ rc' = RC_CANCEL
            /\ rpc' = "done"
       ELSE /\ rpc' = "readline"
            /\ UNCHANGED <<child, killed, mon_stop, rc>>
  /\ UNCHANGED <<textVars,
                 orchVars, nameVars, batchVars, stop_flag, quiet_limit, monitor_dir, last_activity, mpc, mnow,
                 last_sz, wake, now, childCode, pipe, written, dirSize, joinAt,
                 nLine, nSize, nBeat, lastEvt, beatGap, stopAtCall, stopAge>>

\* Lines 388-392: p.stdout.readline() blocks until the child has written a
\* line or closed its output (it has exited). A line stamps last_activity
\* and is logged; end of file leaves the loop.
ReaderReadline ==
  /\ rpc = "readline"
  /\ \/ /\ pipe > 0
        /\ pipe' = pipe - 1
        /\ last_activity' = now
        /\ lastEvt' = now
        /\ nLine' = nLine + 1
        /\ rpc' = "check"
     \/ /\ pipe = 0
        /\ child # "running"
        /\ rpc' = "wait"
        /\ UNCHANGED <<pipe, last_activity, lastEvt, nLine>>
  /\ UNCHANGED <<textVars,
                 orchVars, nameVars, batchVars, stop_flag, quiet_limit, monitor_dir, mon_stop, rc, mpc, mnow,
                 last_sz, wake, now, child, childCode, written, dirSize,
                 joinAt, nSize, nBeat, beatGap, killed, stopAtCall, stopAge>>

\* Lines 393-394: p.wait() and mon_stop.set().
ReaderWait ==
  /\ rpc = "wait"
  /\ child # "running"
  /\ mon_stop' = TRUE
  /\ joinAt' = now
  /\ rpc' = "join"
  /\ UNCHANGED <<textVars,
                 orchVars, nameVars, batchVars, stop_flag, quiet_limit, monitor_dir, last_activity, rc, mpc,
                 mnow, last_sz, wake, now, child, childCode, pipe, written,
                 dirSize, nLine, nSize, nBeat, lastEvt, beatGap, killed,
                 stopAtCall, stopAge>>

\* Lines 395-396: t_mon.join(timeout=5), then return p.returncode.
ReaderJoin ==
  /\ rpc = "join"
  /\ (mpc = "exit" \/ now - joinAt >= JoinTimeout)
  /\ rc' = childCode
  /\ rpc' = "done"
  /\ UNCHANGED <<textVars,
                 orchVars, nameVars, batchVars, stop_flag, quiet_limit, monitor_dir, last_activity, mon_stop,
                 mpc, mnow, last_sz, wake, now, child, childCode, pipe,
                 written, dirSize, joinAt, nLine, nSize, nBeat, lastEvt,
                 beatGap, killed, stopAtCall, stopAge>>

\* Lines 359-362: the loop test of monitor(), p.poll() and now = time.time().
MonLoop ==
  /\ mpc = "loop"
  /\ IF mon_stop \/ child # "running"
       THEN mpc' = "exit" /\ mnow' = mnow
       ELSE mpc' = "size" /\ mnow' = now
  /\ UNCHANGED <<textVars,
                 orchVars, nameVars, batchVars, stop_flag, quiet_limit, monitor_dir, last_activity, mon_stop,
                 rpc, rc, last_sz, wake, now, child, childCode, pipe, written,
                 dirSize, joinAt, nLine, nSize, nBeat, lastEvt, beatGap,
                 killed, stopAtCall, stopAge>>

\* Lines 364-372: with a monitor_dir, a change of its size is reported and
\* counts as activity.
MonSize ==
  /\ mpc = "size"
  /\ IF monitor_dir /\ dirSize # last_sz
       THEN /\ nSize' = nSize + 1
            /\ last_sz' = dirSize
            /\ last_activity' = mnow
            /\ lastEvt' = now
       ELSE UNCHANGED <<nSize, last_sz, last_activity, lastEvt>>
  /\ mpc' = "beat"
  /\ UNCHANGED <<textVars,
                 orchVars, nameVars, batchVars, stop_flag, quiet_limit, monitor_dir, mon_stop, rpc, rc, mnow,
                 wake, now, child, childCode, pipe, written, dirSize, joinAt,
                 nLine, nBeat, beatGap, killed, stopAtCall,
                 stopAge>>

\* Variant of QuietTooLong: the threshold is the poll interval, so a silent
\* child gets a heartbeat on every poll.
M_QuietTooLong == mnow - last_activity >= PollInterval

\* Line 374: the silence has lasted quiet_limit seconds.
QuietTooLong == mnow - last_activity >= quiet_limit

\* Variant of MonBeat: a watchdog that gives up on a silent child and
\* terminates it instead of only reporting.
M_MonBeat ==
  /\ mpc = "beat"
  /\ IF QuietTooLong
       THEN /\ nBeat' = nBeat + 1
            /\ beatGap' = now - lastEvt
            /\ lastEvt' = now
            /\ last_activity' = mnow
            /\ child' = "terminated"
            /\ killed' = TRUE
       ELSE UNCHANGED <<nBeat, beatGap, lastEvt, last_activity, child, killed>>
  /\ mpc' = "sleep"
  /\ wake' = now + PollInterval
  /\ UNCHANGED <<textVars,
                 orchVars, nameVars, batchVars, stop_flag, quiet_limit, monitor_dir, mon_stop, rpc, rc, mnow,
                 last_sz, now, childCode, pipe, written, dirSize,
                 joinAt, nLine, nSize, stopAtCall, stopAge>>

\* Lines 374-378: the heartbeat, then time.sleep(2).
MonBeat ==
  /\ mpc = "beat"
  /\ IF QuietTooLong
       THEN /\ nBeat' = nBeat + 1
            /\ beatGap' = now - lastEvt
            /\ lastEvt' = now
            /\ last_activity' = mnow
       ELSE UNCHANGED <<nBeat, beatGap, lastEvt, last_activity>>
  /\ mpc' = "sleep"
  /\ wake' = now + PollInterval
  /\ UNCHANGED <<textVars,
                 orchVars, nameVars, batchVars, stop_flag, quiet_limit, monitor_dir, mon_stop, rpc, rc, mnow,
                 last_sz, now, child, childCode, pipe, written, dirSize,
                 joinAt, nLine, nSize, killed, stopAtCall,
                 stopAge>>

\* Line 378: time.sleep(2) is over.
MonWake ==
  /\ mpc = "sleep"
  /\ now >= wake
  /\ mpc' = "loop"
  /\ UNCHANGED <<textVars,
                 orchVars, nameVars, batchVars, stop_flag, quiet_limit, monitor_dir, last_activity, mon_stop,
                 rpc, rc, mnow, last_sz, wake, now, child, childCode, pipe,
                 written, dirSize, joinAt, nLine, nSize, nBeat, lastEvt,
                 beatGap, killed, stopAtCall, stopAge>>

\* The child writes a line to its output.
ChildWrite ==
  /\ child = "running"
  /\ written < MaxLines
  /\ pipe' = pipe + 1
  /\ written' = written + 1
  /\ UNCHANGED <<textVars,
                 orchVars, nameVars, batchVars, stop_flag, quiet_limit, monitor_dir, last_activity, mon_stop,
                 rpc, rc, mpc, mnow, last_sz, wake, now, child, childCode,
                 dirSize, joinAt, nLine, nSize, nBeat, lastEvt, beatGap,
                 killed, stopAtCall, stopAge>>

\* The child exits on its own.
ChildExit ==
  /\ child = "running"
  /\ \E c \in ExitCodes : childCode' = c
  /\ child' = "exited"
  /\ UNCHANGED <<textVars,
                 orchVars, nameVars, batchVars, stop_flag, quiet_limit, monitor_dir, last_activity, mon_stop,
                 rpc, rc, mpc, mnow, last_sz, wake, now, pipe, written,
                 dirSize, joinAt, nLine, nSize, nBeat, lastEvt, beatGap,
                 killed, stopAtCall, stopAge>>

\* The child writes into the output directory.
DirGrow ==
  /\ child = "running"
  /\ monitor_dir
  /\ dirSize < MaxDir
  /\ dirSize' = dirSize + 1
  /\ UNCHANGED <<textVars,
                 orchVars, nameVars, batchVars, stop_flag, quiet_limit, monitor_dir, last_activity, mon_stop,
                 rpc, rc, mpc, mnow, last_sz, wake, now, child, childCode,
                 pipe, written, joinAt, nLine, nSize, nBeat, lastEvt, beatGap,
                 killed, stopAtCall, stopAge>>

\* Lines 723-726, on_stop: the user asks to stop.
RunStop ==
  /\ ~stop_flag
  /\ rpc # "done"
  /\ stop_flag' = TRUE
  /\ UNCHANGED <<textVars, runVars, orchVars, nameVars, batchVars>>

\* One second passes. The statements of one watchdog iteration take no
\* time; a sleeping watchdog wakes when its two seconds are over.
Tick ==
  /\ rpc \notin {"call", "done"}
  /\ now < MaxTime
  /\ mpc \in {"sleep", "exit"}
  /\ mpc = "sleep" => now < wake
  /\ now' = now + 1
  /\ stopAge' = IF stop_flag /\ stopAge <= PollInterval
                  THEN stopAge + 1 ELSE stopAge
  /\ UNCHANGED <<textVars,
                 orchVars, nameVars, batchVars, stop_flag, quiet_limit, monitor_dir, last_activity, mon_stop,
                 rpc, rc, mpc, mnow, last_sz, wake, child, childCode, pipe,
                 written, dirSize, joinAt, nLine, nSize, nBeat, lastEvt,
                 beatGap, killed, stopAtCall>>


(***************************************************************************)
(* File names. A name is a sequence of one-character strings.              *)
(***************************************************************************)

Digits == <<"0", "1", "2", "3", "4", "5", "6", "7", "8", "9">>
IsDigit(c) == \E i \in 1..10 : Digits[i] = c

\* str.lower(), and the case folding of re.I, on ASCII letters.
UpperAZ == <<"A", "B", "C", "D", "E", "F", "G", "H", "I", "J", "K", "L", "M",
             "N", "O", "P", "Q", "R", "S", "T", "U", "V", "W", "X", "Y", "Z">>
LowerAZ == <<"a", "b", "c", "d", "e", "f", "g", "h", "i", "j", "k", "l", "m",
             "n", "o", "p", "q", "r", "s", "t", "u", "v", "w", "x", "y", "z">>
LowerChar(c) ==
  IF \E i \in 1..26 : UpperAZ[i] = c
  THEN LowerAZ[CHOOSE i \in 1..26 : UpperAZ[i] = c]
  ELSE c
Lower(s) == [i \in 1..Len(s) |-> LowerChar(s[i])]

\* str.endswith, str.startswith, s[:-n], `t in s`.
EndsWith(s, t) ==
  Len(s) >= Len(t) /\ SubSeq(s, Len(s) - Len(t) + 1, Len(s)) = t
StartsWith(s, t) == Len(s) >= Len(t) /\ SubSeq(s, 1, Len(t)) = t
DropLast(s, n) == SubSeq(s, 1, Len(s) - n)
Contains(s, t) ==
  \E i \in 1..(Len(s) - Len(t) + 1) : SubSeq(s, i, i + Len(t) - 1) = t

\* What a trailing 0* and a trailing \d* of a regular expression leave.
RECURSIVE StripZeros(_)
StripZeros(s) ==
  IF Len(s) > 0 /\ s[Len(s)] = "0" THEN StripZeros(DropLast(s, 1)) ELSE s
RECURSIVE StripDigits(_)
StripDigits(s) ==
  IF Len(s) > 0 /\ IsDigit(s[Len(s)]) THEN StripDigits(DropLast(s, 1)) ELSE s

DOT_PART == <<".", "p", "a", "r", "t">>
DOT_RAR == <<".", "r", "a", "r">>
DOT_7Z == <<".", "7", "z">>
DOT_ZIP == <<".", "z", "i", "p">>
DOT_001 == <<".", "0", "0", "1">>
DOT_Z01 == <<".", "z", "0", "1">>

\* Line 27.
KNOWN_EXTS == {DOT_ZIP, DOT_7Z, DOT_RAR, DOT_001, DOT_Z01}

\* Lines 177, 319: re.search(r'\.part0*1\.rar$', name); the second pattern
\* of the line, \.part1\.rar$, is the case of no zero.
M_MatchPartOne(name) ==
  /\ EndsWith(name, <<"1">> \o DOT_RAR)
  /\ EndsWith(StripDigits(DropLast(name, 5)), DOT_PART)

MatchPartOne(name) ==
  /\ EndsWith(name, <<"1">> \o DOT_RAR)
  /\ EndsWith(StripZeros(DropLast(name, 5)), DOT_PART)

\* Lines 179, 254: re.search(r'\.part\d+\.rar$', name).
MatchPartN(name) ==
  /\ EndsWith(name, DOT_RAR)
  /\ Len(name) > 4
  /\ IsDigit(name[Len(name) - 4])
  /\ EndsWith(StripDigits(DropLast(name, 4)), DOT_PART)

\* Line 187: re.search(r'\.z\d{2}$', name).
MatchZnn(name) ==
  /\ Len(name) >= 4
  /\ IsDigit(name[Len(name)]) /\ IsDigit(name[Len(name) - 1])
  /\ EndsWith(DropLast(name, 2), <<".", "z">>)

\* Line 311: re.match(r'.*\.(\d{3})$', name).
MatchDot3(name) ==
  /\ Len(name) >= 4
  /\ \A i \in 0..2 : IsDigit(name[Len(name) - i])
  /\ name[Len(name) - 3] = "."

\* Lines 175-189: <<is_multi, is_first>>.
is_multipart_first(archive) ==
  LET name == Lower(archive) IN
  IF MatchPartOne(name) THEN <<TRUE, TRUE>>
  ELSE IF MatchPartN(name) THEN <<TRUE, FALSE>>
  ELSE IF EndsWith(name, DOT_7Z \o DOT_001) \/ EndsWith(name, DOT_ZIP \o DOT_001)
    THEN <<TRUE, TRUE>>
  ELSE IF EndsWith(name, DOT_001) THEN <<TRUE, TRUE>>
  ELSE IF EndsWith(name, DOT_Z01) THEN <<TRUE, TRUE>>
  ELSE IF MatchZnn(name) THEN <<TRUE, FALSE>>
  ELSE <<FALSE, FALSE>>

\* Path.glob of prefix + '*' + suffix in the directory.
Glob(prefix, suffix, files) ==
  {f \in files : /\ Len(f) >= Len(prefix) + Len(suffix)
                 /\ StartsWith(f, prefix)
                 /\ EndsWith(f, suffix)}

\* Lines 305-326, with `files` the names in the first part's directory.
\* Line 319: the group (.+?) is what precedes .part0*1.rar, and is not empty.
get_all_multipart_siblings(first_part, files) ==
  LET name == first_part
      low == Lower(name)
      siblings ==
        IF EndsWith(low, DOT_7Z \o DOT_001) \/ EndsWith(low, DOT_ZIP \o DOT_001)
          THEN {p \in Glob(DropLast(name, 4) \o <<".">>, <<>>, files) :
                   MatchDot3(Lower(p))}
        ELSE IF EndsWith(low, DOT_Z01)
          THEN Glob(DropLast(name, 3) \o <<"z">>, <<>>, files)
        ELSE IF MatchPartOne(low)
                /\ Len(StripZeros(DropLast(low, 5))) > Len(DOT_PART)
          THEN LET prefix ==
                     SubSeq(name, 1, Len(StripZeros(DropLast(low, 5))) - 5)
               IN Glob(prefix \o DOT_PART, DOT_RAR, files)
        ELSE {}
  IN siblings \cup {first_part}

\* Path.suffix and Path.with_suffix.
LastDot(name) ==
  IF \E i \in 1..Len(name) : name[i] = "."
    THEN CHOOSE i \in 1..Len(name) :
           name[i] = "." /\ \A j \in (i + 1)..Len(name) : name[j] # "."
    ELSE 0
Suffix(name) ==
  IF LastDot(name) > 1 /\ LastDot(name) < Len(name)
    THEN SubSeq(name, LastDot(name), Len(name))
    ELSE <<>>
WithSuffix(name, t) == DropLast(name, Len(Suffix(name))) \o t

\* Lines 153-165: the extension normalize_extension renames to, <<>> for
\* none. re.sub(r'[^0-9a-z]', '', ext) keeps digits and lower-case letters.
IsLowerAlnum(c) ==
  IsDigit(c) \/ c \in {"a", "b", "c", "d", "e", "f", "g", "h", "i", "j", "k", "l",
                       "m", "n", "o", "p", "q", "r", "s", "t", "u", "v", "w", "x",
                       "y", "z"}
NormTarget(name) ==
  LET ext == Lower(Suffix(name))
      cleaned == SelectSeq(ext, IsLowerAlnum)
  IN IF ext \in KNOWN_EXTS \/ ext = <<>> THEN <<>>
     ELSE IF Contains(cleaned, <<"r", "a", "r">>) THEN DOT_RAR
     ELSE IF Contains(cleaned, <<"7", "z">>) THEN DOT_7Z
     ELSE IF Contains(cleaned, <<"z", "i", "p">>) THEN DOT_ZIP
     ELSE <<>>

\* Lines 253-255: the name passes the extension filter of gather_archives.
LooksLikeArchive(low) ==
  \/ EndsWith(low, DOT_ZIP) \/ EndsWith(low, DOT_7Z) \/ EndsWith(low, DOT_RAR)
  \/ EndsWith(low, DOT_001) \/ EndsWith(low, DOT_Z01)
  \/ MatchPartN(low)

\* Lines 256-258: a fragment that is not the first is left out.
M_SkipFragment(p) == FALSE

SkipFragment(p) == is_multipart_first(p)[1] /\ ~is_multipart_first(p)[2]

(***************************************************************************)
(* Texts the password inference reads: file names, directory names and the *)
(* content of hint files. A text is a sequence of characters; a character  *)
(* outside ASCII is written as its code point.                             *)
(***************************************************************************)

Jie == "U+89E3"       \* 解
Ya == "U+538B"        \* 压
Mi == "U+5BC6"        \* 密
Ma == "U+7801"        \* 码
Ti == "U+63D0"        \* 提
Qu == "U+53D6"        \* 取
Suo == "U+7F29"       \* 缩
Tong == "U+7EDF"      \* 统
Yi == "U+4E00"        \* 一
Wei == "U+4E3A"       \* 为
Shi == "U+662F"       \* 是
Jiao == "U+6559"      \* 教
Cheng == "U+7A0B"     \* 程
Ruan == "U+8F6F"      \* 软
Jian == "U+4EF6"      \* 件
FwColon == "U+FF1A"   \* ：
FwComma == "U+FF0C"   \* ，
FwStop == "U+3002"    \* 。
FwSemi == "U+FF1B"    \* ；
FwLParen == "U+FF08"  \* （
FwRParen == "U+FF09"  \* ）
LLentic == "U+3010"   \* 【
RLentic == "U+3011"   \* 】
Backtick == "U+0060"  \* the grave accent

\* What \s matches and str.strip() removes.
Spaces == {" ", "\t", "\n", "\r"}

SetMax(S) == CHOOSE x \in S : \A y \in S : y <= x
SetMin(S) == CHOOSE x \in S : \A y \in S : x <= y

\* str.strip(chars): characters of cs removed from both ends.
RECURSIVE LStrip(_, _)
LStrip(s, cs) == IF Len(s) > 0 /\ s[1] \in cs THEN LStrip(Tail(s), cs) ELSE s
RECURSIVE RStrip(_, _)
RStrip(s, cs) ==
  IF Len(s) > 0 /\ s[Len(s)] \in cs THEN RStrip(DropLast(s, 1), cs) ELSE s
Strip(s, cs) == RStrip(LStrip(s, cs), cs)

\* The keyword w stands at position i of text; icase is re.I.
MatchWord(text, i, w, icase) ==
  /\ i >= 1 /\ i + Len(w) - 1 <= Len(text)
  /\ LET t == SubSeq(text, i, i + Len(w) - 1)
     IN IF icase THEN Lower(t) = Lower(w) ELSE t = w

\* Where a greedy run of characters of cs (resp. outside cs) that starts at
\* position j stops: the first position the run does not take.
RECURSIVE RunEnd(_, _, _)
RunEnd(text, j, cs) ==
  IF j <= Len(text) /\ text[j] \in cs THEN RunEnd(text, j + 1, cs) ELSE j
RECURSIVE RunEndNot(_, _, _)
RunEndNot(text, j, cs) ==
  IF j <= Len(text) /\ text[j] \notin cs THEN RunEndNot(text, j + 1, cs) ELSE j

(***************************************************************************)
(* PWD_PREFIX_RE = (解压码|解压密码|密码)(统一为|为|是)?\s*[：:\s]\s*(.+)         *)
(***************************************************************************)
PrefixWords == <<<<Jie, Ya, Ma>>, <<Jie, Ya, Mi, Ma>>, <<Mi, Ma>>>>
PrefixLinks == <<<<Tong, Yi, Wei>>, <<Wei>>, <<Shi>>>>
PrefixSeps == {FwColon, ":"} \cup Spaces

\* \s*[：:\s]\s*(.+) from position j: the start of group 3, 0 when the tail
\* does not match. Each \s* is greedy and gives back what the rest needs;
\* the dot takes any character but the line feed.
PrefixTail(text, j) ==
  LET s == RunEnd(text, j, Spaces)
      fits(p, g) == /\ p <= Len(text) /\ text[p] \in PrefixSeps
                  /\ g <= Len(text) /\ text[g] # "\n"
      starts(p) == {g \in (p + 1)..RunEnd(text, p + 1, Spaces) : fits(p, g)}
      seps == {p \in j..s : starts(p) # {}}
  IN IF seps = {} THEN 0 ELSE SetMax(starts(SetMax(seps)))

\* The match of the pattern that starts at position i: the start of group
\* 3, 0 when there is none. The optional group is tried present first.
PrefixAt(text, i) ==
  LET ws == {n \in 1..Len(PrefixWords) : MatchWord(text, i, PrefixWords[n], FALSE)}
  IN IF ws = {} THEN 0
     ELSE LET j == i + Len(PrefixWords[SetMin(ws)])
              ls == {n \in 1..Len(PrefixLinks) :
                       /\ MatchWord(text, j, PrefixLinks[n], FALSE)
                       /\ PrefixTail(text, j + Len(PrefixLinks[n])) # 0}
          IN IF ls # {} THEN PrefixTail(text, j + Len(PrefixLinks[SetMin(ls)]))
             ELSE PrefixTail(text, j)

\* PWD_PREFIX_RE.search(text).group(3); the empty text when nothing matches.
PrefixGroup(text) ==
  LET is == {i \in 1..Len(text) : PrefixAt(text, i) # 0}
  IN IF is = {} THEN <<>>
     ELSE LET g == PrefixAt(text, SetMin(is))
          IN SubSeq(text, g, RunEndNot(text, g, {"\n"}) - 1)

(***************************************************************************)
(* A keyword, [：:\s=]* and a group of one or more characters outside a    *)
(* set: the tail shared by PWD_BRACKET_RE and PWD_INLINE_RE.               *)
(***************************************************************************)
TokenSeps == {FwColon, ":", "="} \cup Spaces

\* [：:\s=]*([^...]+) from position j: the start of the group, 0 when the
\* tail does not match. The greedy run gives back what the group needs.
TokenStart(text, j, excl) ==
  LET e == RunEnd(text, j, TokenSeps)
      gs == {g \in j..e : g <= Len(text) /\ text[g] \notin excl}
  IN IF gs = {} THEN 0 ELSE SetMax(gs)

\* The first alternative of words, in the order of the pattern, with which
\* the pattern matches from position i: the start of the group, 0 if none.
WordsAt(text, i, words, excl) ==
  LET ws == {n \in 1..Len(words) :
               /\ MatchWord(text, i, words[n], TRUE)
               /\ TokenStart(text, i + Len(words[n]), excl) # 0}
  IN IF ws = {} THEN 0
     ELSE TokenStart(text, i + Len(words[SetMin(ws)]), excl)

(***************************************************************************)
(* PWD_BRACKET_RE =                                                        *)
(*   [\[(（【]\s*(?:pwd|password|pass|密码|解压码|提取码)[：:\s=]*            *)
(*   ([^\]\)）】\s]+)                                          with re.I   *)
(***************************************************************************)
BracketOpen == {"[", "(", FwLParen, LLentic}
BracketWords ==
  << <<"p", "w", "d">>, <<"p", "a", "s", "s", "w", "o", "r", "d">>,
     <<"p", "a", "s", "s">>, <<Mi, Ma>>, <<Jie, Ya, Ma>>, <<Ti, Qu, Ma>> >>
BracketExcl == {"]", ")", FwRParen, RLentic} \cup Spaces

BracketAt(text, i) ==
  IF text[i] \in BracketOpen
  THEN WordsAt(text, RunEnd(text, i + 1, Spaces), BracketWords, BracketExcl)
  ELSE 0

\* PWD_BRACKET_RE.search(text).group(1); the empty text when nothing matches.
BracketGroup(text) ==
  LET is == {i \in 1..Len(text) : BracketAt(text, i) # 0}
  IN IF is = {} THEN <<>>
     ELSE LET g == BracketAt(text, SetMin(is))
          IN SubSeq(text, g, RunEndNot(text, g, BracketExcl) - 1)

(***************************************************************************)
(* PWD_INLINE_RE =                                                         *)
(*   (解压码|解压密码|压缩密码|提取码|密码|pw|pass|password|key)[：:\s=]*      *)
(*   ([^\s\]\\/:<>\"\'`]+)                                     with re.I   *)
(***************************************************************************)
M_InlineWords ==
  << <<Jie, Ya, Ma>>, <<Jie, Ya, Mi, Ma>>, <<Ya, Suo, Mi, Ma>>,
     <<Mi, Ma>>, <<"p", "w">>, <<"p", "a", "s", "s">>,
     <<"p", "a", "s", "s", "w", "o", "r", "d">>, <<"k", "e", "y">> >>

InlineWords ==
  << <<Jie, Ya, Ma>>, <<Jie, Ya, Mi, Ma>>, <<Ya, Suo, Mi, Ma>>,
     <<Ti, Qu, Ma>>, <<Mi, Ma>>, <<"p", "w">>, <<"p", "a", "s", "s">>,
     <<"p", "a", "s", "s", "w", "o", "r", "d">>, <<"k", "e", "y">> >>
InlineExcl ==
  {"]", "\\", "/", ":", "<", ">", "\"", "'", Backtick} \cup Spaces

\* PWD_INLINE_RE.search(text).group(2); the empty text when nothing matches.
InlineGroup(text) ==
  LET is == {i \in 1..Len(text) : WordsAt(text, i, InlineWords, InlineExcl) # 0}
  IN IF is = {} THEN <<>>
     ELSE LET g == WordsAt(text, SetMin(is), InlineWords, InlineExcl)
          IN SubSeq(text, g, RunEndNot(text, g, InlineExcl) - 1)

\* Python's None, where a password is expected.
None == <<"None">>

\* `if pwd:`
Truthy(pwd) == pwd # None /\ pwd # <<>>

\* _clean_pwd
CleanChars ==
  {FwComma, FwStop, ",", ":", FwColon, ";", FwSemi, ")", "]", "}", RLentic,
   FwRParen}
clean_pwd(pwd) == Strip(Strip(pwd, Spaces), CleanChars)

\* _extract_pwd_from_text: the three patterns in their order; the first whose
\* group is not blank decides.
extract_pwd_from_text(text) ==
  LET vals == << Strip(PrefixGroup(text), Spaces),
                 Strip(BracketGroup(text), Spaces),
                 Strip(InlineGroup(text), Spaces) >>
      hits == {n \in 1..3 : vals[n] # <<>>}
  IN IF hits = {} THEN None ELSE clean_pwd(vals[SetMin(hits)])


(***************************************************************************)
(* _handle_one_archive                                                     *)
(***************************************************************************)

\* What sniff_signature can answer; html, xml and pdf mark a non-archive.
Sigs == {"zip", "unknown", "html", "xml", "pdf"}
\* A variant that does not know the PDF signature.
M_NotArchive == {"html", "xml"}

NotArchive == {"html", "xml", "pdf"}

\* Files beside the archive. The archive being handled is the first part of
\* a two-part family, a.part1.rar and a.part2.rar; b.7z.001 is unrelated.
Arc == <<"a">> \o DOT_PART \o <<"1">> \o DOT_RAR
AllFiles == {Arc, <<"a">> \o DOT_PART \o <<"2">> \o DOT_RAR,
             <<"b">> \o DOT_7Z \o DOT_001}

\* Lines 775-794: configured executables that exist come first (Bandizip
\* before 7-Zip); with none configured the executables found on the path.
SelFirst ==
  IF bzOk THEN "bandizip"
  ELSE IF szOk THEN "7zip"
  ELSE IF bzAuto THEN "bandizip"
  ELSE IF szAuto THEN "7zip"
  ELSE "none"

\* Line 784: no configured executable exists, so find_on_path is asked.
NeedAuto == ~bzOk /\ ~szOk

\* Variant of SelSecond: 7-Zip is made the second engine whenever it is
\* there, whatever the first engine is.
M_SelSecond ==
  IF szOk \/ szAuto THEN "7zip" ELSE "none"

SelSecond ==
  IF bzOk THEN (IF szOk THEN "7zip" ELSE "none")
  ELSE IF szOk THEN "none"
  ELSE IF bzAuto /\ szAuto THEN "7zip"
  ELSE "none"

OrchInit ==
  /\ var_pretest \in BOOLEAN
  /\ var_cross_try \in BOOLEAN
  /\ var_nested \in BOOLEAN
  /\ var_delete \in BOOLEAN
  /\ bzOk \in BOOLEAN
  /\ szOk \in BOOLEAN
  /\ bzAuto \in BOOLEAN
  /\ szAuto \in BOOLEAN
  /\ sig \in Sigs
  /\ disk = AllFiles
  /\ first = "none"
  /\ second = "none"
  /\ opc = "start"
  /\ ok = FALSE
  /\ nestedLeft = <<>>
  /\ count = 0
  /\ cpc = "none"
  /\ cur = [kind |-> "none", slot |-> "none", eng |-> "none"]
  /\ crc = 0
  /\ invoked = <<>>
  /\ rets = <<>>
  /\ posted = {}
  /\ pwdInferred = FALSE
  /\ mkdirCalled = FALSE
  /\ autoTried = FALSE
  /\ ndir = {}
  /\ ndel = {}
  /\ nestedArcs = <<>>

\* The command built by _test_archive / _extract_with for an engine.
Call(kind, slot, eng) == [kind |-> kind, slot |-> slot, eng |-> eng]

\* Lines 751-813 up to the first subprocess: a non-archive is skipped with a
\* warning before anything else is done; then infer_password (line 757)
\* lists the archive's directory outside any try (line 230) and
\* out_dir.mkdir (line 768) is unguarded, so either may raise out of the
\* handler; engines are selected; with none the archive is skipped with an
\* error line; otherwise the first command is the primary engine's test
\* (pretest on) or its extract.
HandlePrepare ==
  /\ opc = "start"
  /\ IF sig \in NotArchive
       THEN /\ posted' = posted \cup {"not_archive"}
            /\ opc' = "done"
            /\ UNCHANGED <<first, second, cpc, cur, prepVars>>
       ELSE /\ pwdInferred' = TRUE
            /\ \E listOk \in BOOLEAN, mkdirOk \in BOOLEAN :
                 IF ~listOk \/ ~mkdirOk
                   THEN /\ mkdirCalled' = listOk
                        /\ opc' = "raised"
                        /\ UNCHANGED <<first, second, cpc, cur, posted, autoTried>>
                   ELSE
                     /\ mkdirCalled' = TRUE
                     /\ autoTried' = NeedAuto
                     /\ first' = SelFirst
                     /\ second' = SelSecond
                     /\ IF SelFirst = "none"
                          THEN /\ posted' = posted \cup {"no_engine"}
                               /\ opc' = "done"
                               /\ UNCHANGED <<cpc, cur>>
                          ELSE /\ posted' = posted
                               /\ cpc' = "popen"
                               /\ IF var_pretest
                                    THEN /\ opc' = "test1"
                                         /\ cur' = Call("test", "first", SelFirst)
                                    ELSE /\ opc' = "extract1"
                                         /\ cur' = Call("extract", "first", SelFirst)
  /\ UNCHANGED <<textVars,
                 stop_flag, runVars, nameVars, batchVars, nestVars, var_pretest, var_cross_try, var_nested,
                 var_delete, bzOk, szOk, bzAuto, szAuto, sig, disk, ok,
                 nestedLeft, count, crc, invoked, rets>>

\* run_cmd as the handler sees it: the value it returns.
CmdReturn(code) ==
  /\ crc' = code
  /\ cpc' = "returned"
  /\ rets' = Append(rets, [kind |-> cur.kind, slot |-> cur.slot,
                           eng |-> cur.eng, rc |-> code])

\* Lines 348-354, 397-401: the command is started, or cannot be.
CmdPopen ==
  /\ cpc = "popen"
  /\ invoked' = Append(invoked, cur)
  /\ \E outcome \in {"ok", "notfound", "error"} :
       \/ /\ outcome = "ok"
          /\ cpc' = "check"
          /\ UNCHANGED <<crc, rets>>
       \/ /\ outcome = "notfound"
          /\ CmdReturn(RC_NOTFOUND)
       \/ /\ outcome = "error"
          /\ CmdReturn(RC_ERROR)
  /\ UNCHANGED <<textVars,
                 stop_flag, runVars, nameVars, batchVars, nestVars, prepVars, var_pretest, var_cross_try, var_nested,
                 var_delete, bzOk, szOk, bzAuto, szAuto, sig, disk, first,
                 second, opc, ok, nestedLeft, count, cur, posted>>

\* Lines 383-387: the top of the read loop.
CmdCheckStop ==
  /\ cpc = "check"
  /\ IF CancelRequested
       THEN CmdReturn(RC_CANCEL)
       ELSE cpc' = "readline" /\ UNCHANGED <<crc, rets>>
  /\ UNCHANGED <<textVars,
                 stop_flag, runVars, nameVars, batchVars, nestVars, prepVars, var_pretest, var_cross_try, var_nested,
                 var_delete, bzOk, szOk, bzAuto, szAuto, sig, disk, first,
                 second, opc, ok, nestedLeft, count, cur, invoked, posted>>

\* Lines 388-396: a line is read and logged, or the child has exited and its
\* exit code is returned; no engine exits with 0 on an archive that is no
\* longer there.
CmdReadline ==
  /\ cpc = "readline"
  /\ \/ cpc' = "check" /\ UNCHANGED <<crc, rets>>
     \/ \E c \in ExitCodes :
          /\ (cur.kind = "nested" /\ Head(nestedLeft) \notin ndir) => c # 0
          /\ CmdReturn(c)
  /\ UNCHANGED <<textVars,
                 stop_flag, runVars, nameVars, batchVars, nestVars, prepVars, var_pretest, var_cross_try, var_nested,
                 var_delete, bzOk, szOk, bzAuto, szAuto, sig, disk, first,
                 second, opc, ok, nestedLeft, count, cur, invoked, posted>>

\* Variant of TestResult: the cancelled value -1 is not told apart from an
\* engine's error code.
M_TestResult(code) ==
  IF code = 0 THEN "pass"
  ELSE IF code \in {RC_NOTFOUND, RC_ERROR} THEN "inconclusive"
  ELSE "fail"

\* Lines 1240-1245: what _test_archive makes of run_cmd's value: True,
\* None (cancelled, tool missing, execution error) or False.
TestResult(code) ==
  IF code = 0 THEN "pass"
  ELSE IF code \in {RC_CANCEL, RC_NOTFOUND, RC_ERROR} THEN "inconclusive"
  ELSE "fail"

\* Variant of GiveUp: the second test is compared with None instead of
\* False.
M_GiveUp(tester) ==
  tester = "inconclusive"

\* Line 807: the second test failed too.
GiveUp(tester) ==
  tester = "fail"

\* Line 804: a failed test is repeated with the other engine.
RetryTest(tester) ==
  tester = "fail" /\ var_cross_try /\ second # "none"

\* Variant of RetryExtract: the result of the first extraction is not
\* consulted.
M_RetryAlways(okv) ==
  var_cross_try /\ second # "none"

\* Variant of RetryExtract: the cross-fallback setting is not consulted.
M_RetryExtract(okv) ==
  ~okv /\ second # "none"

\* Line 814: a failed extraction is repeated with the other engine.
RetryExtract(okv) ==
  ~okv /\ var_cross_try /\ second # "none"

\* Variant of ShouldDelete: the result of the extraction is not consulted.
M_ShouldDelete(okv) ==
  var_delete

\* Lines 819, 827: the source files are deleted.
ShouldDelete(okv) ==
  okv /\ var_delete

\* Lines 819-834 once no nested extraction is pending: source deletion on
\* success, the failure line otherwise.
Finish(okv, sofar) ==
  IF ShouldDelete(okv)
    THEN /\ disk' = disk \ get_all_multipart_siblings(Arc, disk)
         /\ posted' = sofar \cup {"deleted"}
    ELSE /\ disk' = disk
         /\ posted' = IF okv THEN sofar ELSE sofar \cup {"extract_failed"}

\* What the extraction may have put into out_dir, in the order of the
\* walk: y.part1.rar, y.part2.rar and the archive y.partial.rar.
NestedNames ==
  << <<"y">> \o DOT_PART \o <<"1">> \o DOT_RAR,
     <<"y">> \o DOT_PART \o <<"2">> \o DOT_RAR,
     <<"y", ".", "p", "a", "r", "t", "i", "a", "l">> \o DOT_RAR >>
NestedDirs ==
  {d \in SUBSET {NestedNames[i] : i \in 1..Len(NestedNames)} :
      Cardinality(d) <= MaxNested}

\* Lines 819-821: after the last extract command: the nested extraction
\* starts its walk of out_dir, or the handler finishes.
AfterExtract(okv) ==
  /\ ok' = okv
  /\ cpc' = "none"
  /\ IF okv /\ var_nested
       THEN /\ opc' = "nested"
            /\ \E d \in NestedDirs :
                 /\ ndir' = d
                 /\ nestedLeft' = SelectSeq(NestedNames, LAMBDA f : f \in d)
            /\ count' = 0
            /\ UNCHANGED <<disk, posted>>
       ELSE /\ opc' = "done"
            /\ Finish(okv, posted)
            /\ UNCHANGED <<nestedLeft, count, ndir>>

\* Lines 803-813: the primary test has returned.
AfterTest1 ==
  /\ opc = "test1"
  /\ cpc = "returned"
  /\ cpc' = "popen"
  /\ IF RetryTest(TestResult(crc))
       THEN /\ opc' = "test2"
            /\ cur' = Call("test", "second", second)
       ELSE /\ opc' = "extract1"
            /\ cur' = Call("extract", "first", first)
  /\ UNCHANGED <<textVars,
                 stop_flag, runVars, nameVars, batchVars, nestVars, prepVars, var_pretest, var_cross_try, var_nested,
                 var_delete, bzOk, szOk, bzAuto, szAuto, sig, disk, first,
                 second, ok, nestedLeft, count, crc, invoked, rets, posted>>

\* Lines 807-813: the secondary test has returned.
AfterTest2 ==
  /\ opc = "test2"
  /\ cpc = "returned"
  /\ IF GiveUp(TestResult(crc))
       THEN /\ posted' = posted \cup {"corrupt"}
            /\ opc' = "done"
            /\ cpc' = "none"
            /\ cur' = cur
       ELSE /\ posted' = posted
            /\ opc' = "extract1"
            /\ cpc' = "popen"
            /\ cur' = Call("extract", "first", first)
  /\ UNCHANGED <<textVars,
                 stop_flag, runVars, nameVars, batchVars, nestVars, prepVars, var_pretest, var_cross_try, var_nested,
                 var_delete, bzOk, szOk, bzAuto, szAuto, sig, disk, first,
                 second, ok, nestedLeft, count, crc, invoked, rets>>

\* Lines 813-817: the primary extract has returned.
AfterExtract1 ==
  /\ opc = "extract1"
  /\ cpc = "returned"
  /\ IF RetryExtract(crc = 0)
       THEN /\ opc' = "extract2"
            /\ cpc' = "popen"
            /\ cur' = Call("extract", "second", second)
            /\ ok' = (crc = 0)
            /\ UNCHANGED <<disk, posted, nestedLeft, count, ndir>>
       ELSE /\ AfterExtract(crc = 0)
            /\ cur' = cur
  /\ UNCHANGED <<textVars,
                 stop_flag, runVars, nameVars, batchVars, prepVars, var_pretest, var_cross_try, var_nested,
                 var_delete, bzOk, szOk, bzAuto, szAuto, sig, first, second,
                 crc, invoked, rets, ndel, nestedArcs>>

\* Lines 817-819: the secondary extract has returned.
AfterExtract2 ==
  /\ opc = "extract2"
  /\ cpc = "returned"
  /\ AfterExtract(crc = 0)
  /\ UNCHANGED <<textVars,
                 stop_flag, runVars, nameVars, batchVars, prepVars, var_pretest, var_cross_try, var_nested,
                 var_delete, bzOk, szOk, bzAuto, szAuto, sig, first, second,
                 cur, crc, invoked, rets, ndel, nestedArcs>>

\* Lines 821-824 and 1276-1279: the engine _extract_nested uses: Bandizip
\* when the first engine is Bandizip, 7-Zip otherwise.
NestedEngine ==
  IF first = "bandizip" THEN "bandizip" ELSE "7zip"

\* Lines 1259-1282 and 825-834: the walk of _extract_nested comes to the
\* next file of out_dir: a file that is not an archive by its name, or is a
\* fragment other than a first part, is passed over; on any other the
\* extract command is started (the names of NestedNames carry known
\* extensions, which normalize_extension leaves alone). When stop_flag is
\* set or nothing is left the walk ends and the handler finishes.
NestedStep ==
  /\ opc = "nested"
  /\ cpc = "none"
  /\ IF stop_flag \/ nestedLeft = <<>>
       THEN /\ opc' = "done"
            /\ Finish(ok, IF count > 0 THEN posted \cup {"nested_done"}
                                     ELSE posted)
            /\ UNCHANGED <<cpc, cur, nestedLeft, nestedArcs>>
       ELSE IF LooksLikeArchive(Lower(Head(nestedLeft)))
               /\ ~SkipFragment(Head(nestedLeft))
         THEN /\ cpc' = "popen"
              /\ cur' = Call("nested", "nested", NestedEngine)
              /\ nestedArcs' = Append(nestedArcs, Head(nestedLeft))
              /\ UNCHANGED <<opc, disk, posted, nestedLeft>>
         ELSE /\ nestedLeft' = Tail(nestedLeft)
              /\ UNCHANGED <<opc, disk, posted, cpc, cur, nestedArcs>>
  /\ UNCHANGED <<textVars,
                 stop_flag, runVars, nameVars, batchVars, prepVars, var_pretest, var_cross_try, var_nested,
                 var_delete, bzOk, szOk, bzAuto, szAuto, sig, first, second,
                 ok, count, crc, invoked, rets, ndir, ndel>>

\* Lines 1282-1288: a nested extract command has returned; on 0 it is
\* counted and, with source deletion on, the siblings of the nested archive
\* are unlinked.
NestedDone ==
  /\ opc = "nested"
  /\ cpc = "returned"
  /\ cpc' = "none"
  /\ nestedLeft' = Tail(nestedLeft)
  /\ count' = IF crc = 0 THEN count + 1 ELSE count
  /\ IF crc = 0 /\ var_delete
       THEN /\ ndir' = ndir \ get_all_multipart_siblings(Head(nestedLeft), ndir)
            /\ ndel' = ndel \cup
                         (ndir \cap get_all_multipart_siblings(Head(nestedLeft), ndir))
       ELSE UNCHANGED <<ndir, ndel>>
  /\ UNCHANGED <<textVars,
                 stop_flag, runVars, nameVars, batchVars, prepVars, var_pretest, var_cross_try, var_nested,
                 var_delete, bzOk, szOk, bzAuto, szAuto, sig, disk, first,
                 second, opc, ok, cur, crc, invoked, rets, posted, nestedArcs>>

\* Lines 723-726, on_stop, while the archive is being handled.
OrchStop ==
  /\ ~stop_flag
  /\ opc \notin {"done", "raised"}
  /\ stop_flag' = TRUE
  /\ UNCHANGED <<textVars, runVars, orchVars, nameVars, batchVars>>

(***************************************************************************)
(* A directory of archives: is_multipart_first, gather_archives and the    *)
(* source deletion of _handle_one_archive, on real file names.             *)
(***************************************************************************)

\* Decimal digits of n, zero-padded to w places.
RECURSIVE Dec(_)
Dec(n) ==
  IF n < 10 THEN <<Digits[n + 1]>>
  ELSE Dec(n \div 10) \o <<Digits[(n % 10) + 1]>>
Pad(n, w) ==
  IF Len(Dec(n)) >= w THEN Dec(n)
  ELSE [i \in 1..(w - Len(Dec(n))) |-> "0"] \o Dec(n)

\* Fragment n of a family, by naming convention: name.partNN.rar with NN
\* padded to w places, name.7z.NNN, name.zip.NNN, name.zNN, bare name.NNN.
Frag(conv, base, n, w) ==
  CASE conv = "rar" -> base \o DOT_PART \o Pad(n, w) \o DOT_RAR
    [] conv = "7z" -> base \o DOT_7Z \o <<".">> \o Pad(n, 3)
    [] conv = "zip" -> base \o DOT_ZIP \o <<".">> \o Pad(n, 3)
    [] conv = "z" -> base \o <<".", "z">> \o Pad(n, 2)
    [] conv = "bare" -> base \o <<".">> \o Pad(n, 3)

Shapes ==
  {[conv |-> "rar", w |-> w] : w \in 1..3}
    \cup {[conv |-> c, w |-> 3] : c \in {"7z", "zip", "bare"}}
    \cup {[conv |-> "z", w |-> 2]}

\* The files of the directory: a.rar, the family under test (base a), the
\* family b.7z.001 + b.7z.002, and possibly a text file, an archive with a
\* damaged extension, and two files named like the family under test:
\* the archive a.partial.rar and the file a.zst.
A_RAR == <<"a">> \o DOT_RAR
N_TXT == <<"n", ".", "t", "x", "t">>
M_RAR_ == <<"m", ".", "R", "a", "r", "_">>
A_PARTIAL_RAR == <<"a", ".", "p", "a", "r", "t", "i", "a", "l">> \o DOT_RAR
A_ZST == <<"a", ".", "z", "s", "t">>
FamA(f) == [n \in 1..f.k |-> Frag(f.conv, <<"a">>, n, f.w)]
FamB == [n \in 1..2 |-> Frag("7z", <<"b">>, n, 3)]
Reverse(q) == [i \in 1..Len(q) |-> q[Len(q) + 1 - i]]

NamesInit ==
  /\ \E s \in Shapes, k \in 1..MaxPart : fam = [conv |-> s.conv, w |-> s.w, k |-> k]
  /\ \E txt \in BOOLEAN, bad \in BOOLEAN, rev \in BOOLEAN, near \in BOOLEAN :
       LET files == <<A_RAR>> \o FamA(fam) \o FamB
                      \o (IF txt THEN <<N_TXT>> ELSE <<>>)
                      \o (IF bad THEN <<M_RAR_>> ELSE <<>>)
                      \o (IF near THEN <<A_PARTIAL_RAR, A_ZST>> ELSE <<>>)
       IN listing = IF rev THEN Reverse(files) ELSE files
  /\ ndisk = {listing[i] : i \in 1..Len(listing)}
  /\ locked \in {{}} \cup {{FamA(fam)[n]} : n \in {2} \cap (1..fam.k)}
  /\ npc = "classify"
  /\ ci = 1
  /\ cls = <<>>
  /\ gi = 1
  /\ found = <<>>
  /\ delArc = <<>>
  /\ todo = <<>>
  /\ removed = 0
  /\ reported = 0

\* Lines 175-189 applied to the next file of the directory.
Classify ==
  /\ npc = "classify"
  /\ cls' = Append(cls, is_multipart_first(listing[ci]))
  /\ ci' = ci + 1
  /\ npc' = IF ci = Len(listing) THEN "gather" ELSE "classify"
  /\ UNCHANGED <<textVars,
                 stop_flag, runVars, orchVars, batchVars, fam, listing, ndisk, locked, gi,
                 found, delArc, todo, removed, reported>>

\* Lines 249-259, one turn of the walk: the extension is normalised (the
\* file is renamed when lines 159-165 name a target and the rename
\* succeeds), and the path is appended unless the filter or the fragment
\* rule leaves it out.
GatherStep ==
  /\ npc = "gather"
  /\ \E renamed \in BOOLEAN :
       LET f == listing[gi]
           p == IF NormTarget(f) # <<>> /\ renamed
                  THEN WithSuffix(f, NormTarget(f)) ELSE f
       IN /\ NormTarget(f) = <<>> => ~renamed
          /\ listing' = [listing EXCEPT ![gi] = p]
          /\ ndisk' = (ndisk \ {f}) \cup {p}
          /\ found' = IF LooksLikeArchive(Lower(p)) /\ ~SkipFragment(p)
                        THEN Append(found, p) ELSE found
  /\ gi' = gi + 1
  /\ npc' = IF gi = Len(listing) THEN "handle" ELSE "gather"
  /\ UNCHANGED <<textVars,
                 stop_flag, runVars, orchVars, batchVars, fam, locked, ci, cls, delArc,
                 todo, removed, reported>>

\* The files of the directory in its order, restricted to a set.
InOrder(files) == SelectSeq(listing, LAMBDA f : f \in files)

\* Lines 827-829: the source deletion of one discovered archive starts; the
\* first part comes last when the patterns did not match it (line 324).
CleanupBegin ==
  /\ npc = "handle"
  /\ \E arc \in {found[i] : i \in 1..Len(found)} :
       /\ delArc' = arc
       /\ todo' = InOrder(get_all_multipart_siblings(arc, ndisk))
  /\ removed' = 0
  /\ npc' = "unlink"
  /\ UNCHANGED <<textVars,
                 stop_flag, runVars, orchVars, batchVars, fam, listing, ndisk, locked, ci,
                 cls, gi, found, reported>>

\* Lines 829-831: p.unlink(missing_ok=True); removed += 1, an exception
\* being passed over.
Unlink ==
  /\ npc = "unlink"
  /\ todo # <<>>
  /\ IF Head(todo) \in locked
       THEN UNCHANGED <<ndisk, removed>>
       ELSE /\ ndisk' = ndisk \ {Head(todo)}
            /\ removed' = removed + 1
  /\ todo' = Tail(todo)
  /\ UNCHANGED <<textVars,
                 stop_flag, runVars, orchVars, batchVars, fam, listing, locked, npc, ci,
                 cls, gi, found, delArc, reported>>

\* Line 832: the deletion line with the count.
CleanupEnd ==
  /\ npc = "unlink"
  /\ todo = <<>>
  /\ reported' = removed
  /\ npc' = "end"
  /\ UNCHANGED <<textVars,
                 stop_flag, runVars, orchVars, batchVars, fam, listing, ndisk, locked, ci,
                 cls, gi, found, delArc, todo, removed>>

(***************************************************************************)
(* Batches: the two buttons that start work, the stop button, the worker   *)
(* thread of a full run (_work_full) and the thread pool of a run over the *)
(* selected items (on_extract_selected). _handle_one_archive is one call   *)
(* that returns or raises.                                                 *)
(***************************************************************************)

\* Each kind of batch is started once.
Batches == {"full", "sel"}
Tasks == 1..MaxSel

\* The worker thread of the batch is still processing archives.
Active(b) ==
  IF b = "full" THEN fpc \in {"loop", "handling"} ELSE spc \in {"loop", "shutdown"}

BatchInit ==
  /\ btnStart = "normal"
  /\ btnStop = "disabled"
  /\ cancelReq = {}
  /\ fpc = "idle" /\ ftotal = 0 /\ fidx = 1 /\ fdone = 0
  /\ fstarted = <<>> /\ fprog = <<>> /\ fstopped = FALSE
  /\ fobserved = FALSE /\ fUnderStop = FALSE
  /\ spc = "idle" /\ workers = 1
  /\ task = [t \in Tasks |-> "pending"]
  /\ done_cnt = 0
  /\ nloc = [t \in Tasks |-> 0]
  /\ sprog = <<>> /\ yielded = 0 /\ sstopped = FALSE

\* Lines 709-721, on_start_full with a valid root: the flag is cleared, the
\* start button disabled, the stop button enabled, the worker started.
\* Lines 730-733: gather_archives finds some number of archives.
OnStartFull ==
  /\ btnStart = "normal"
  /\ fpc = "idle"
  /\ stop_flag' = FALSE
  /\ btnStart' = "disabled"
  /\ btnStop' = "normal"
  /\ fpc' = "loop"
  /\ \E n \in 0..MaxArchives : ftotal' = n
  /\ UNCHANGED <<textVars,
                 runVars, orchVars, nameVars, cancelReq, fidx, fdone, fstarted,
                 fprog, fstopped, fobserved, fUnderStop, selVars>>

\* Lines 1183-1228, on_extract_selected with a selection: the flag is
\* cleared, no button is touched, the pool's thread is started with
\* max(1, min(workers, 16)) workers and one future per selected item.
OnExtractSelected ==
  /\ spc = "idle"
  /\ stop_flag' = FALSE
  /\ spc' = "loop"
  /\ \E w \in 1..MaxWorkers : workers' = w
  /\ UNCHANGED <<textVars,
                 runVars, orchVars, nameVars, guiVars, cancelReq, fullVars, task,
                 done_cnt, nloc, sprog, yielded, sstopped>>

\* Lines 723-726, on_stop, which only the enabled stop button reaches.
OnStop ==
  /\ btnStop = "normal"
  /\ stop_flag' = TRUE
  /\ btnStop' = "disabled"
  /\ cancelReq' = cancelReq \cup {b \in Batches : Active(b)}
  /\ UNCHANGED <<textVars,
                 runVars, orchVars, nameVars, btnStart, fullVars, selVars>>

\* Line 736: the loop of _work_full leaves on a set flag.
M_LoopBreaks == FALSE

LoopBreaks == stop_flag

\* Lines 735-741: the head of the loop: the archives are exhausted, or the
\* flag is set and the loop is left, or the next archive is started.
FullLoop ==
  /\ fpc = "loop"
  /\ IF fidx > ftotal
       THEN fpc' = "after" /\ UNCHANGED <<fstarted, fobserved, fUnderStop>>
       ELSE IF LoopBreaks
         THEN fpc' = "after" /\ fobserved' = TRUE
              /\ UNCHANGED <<fstarted, fUnderStop>>
         ELSE /\ fpc' = "handling"
              /\ fstarted' = Append(fstarted, fidx)
              /\ fUnderStop' = (fUnderStop \/ stop_flag)
              /\ UNCHANGED fobserved
  /\ UNCHANGED <<textVars,
                 stop_flag, runVars, orchVars, nameVars, guiVars, cancelReq,
                 ftotal, fidx, fdone, fprog, fstopped, selVars>>

\* Lines 742-744: _handle_one_archive returns, done is incremented and
\* reported; or it raises (lines 230, 768), the finally clause posts the end
\* line and the exception ends the thread before line 748.
FullHandleEnd ==
  /\ fpc = "handling"
  /\ \/ /\ fdone' = fdone + 1
        /\ fprog' = Append(fprog, fdone + 1)
        /\ fidx' = fidx + 1
        /\ fpc' = "loop"
     \/ /\ fpc' = "crashed"
        /\ UNCHANGED <<fdone, fprog, fidx>>
  /\ UNCHANGED <<textVars,
                 stop_flag, runVars, orchVars, nameVars, guiVars, cancelReq,
                 ftotal, fstarted, fstopped, fobserved, fUnderStop, selVars>>

\* Lines 746-748: the end line is posted and _finish_run is scheduled with
\* the flag as it is now.
FullSchedule ==
  /\ fpc = "after"
  /\ fstopped' = stop_flag
  /\ fpc' = "scheduled"
  /\ UNCHANGED <<textVars,
                 stop_flag, runVars, orchVars, nameVars, guiVars, cancelReq,
                 ftotal, fidx, fdone, fstarted, fprog, fobserved, fUnderStop,
                 selVars>>

\* Lines 699-705, _finish_run: the buttons are reset; a stopped batch is
\* reported as stopped, otherwise _do_end_action is scheduled.
\* Lines 1293-1313, _do_end_action: it looks at the flag again and reports
\* the batch as stopped, or carries out the on-completion action.
FinishRun(pc, stopped) ==
  /\ pc = "scheduled"
  /\ btnStart' = "normal"
  /\ btnStop' = "disabled"
  /\ pc' = IF stopped THEN "ended" ELSE "endwait"

DoEndAction(pc) ==
  /\ pc = "endwait"
  /\ pc' = IF stop_flag THEN "ended" ELSE "acted"

FullFinishRun ==
  /\ FinishRun(fpc, fstopped)
  /\ UNCHANGED <<textVars,
                 stop_flag, runVars, orchVars, nameVars, cancelReq, ftotal, fidx,
                 fdone, fstarted, fprog, fstopped, fobserved, fUnderStop,
                 selVars>>

FullDoEndAction ==
  /\ DoEndAction(fpc)
  /\ UNCHANGED <<textVars,
                 stop_flag, runVars, orchVars, nameVars, guiVars, cancelReq,
                 ftotal, fidx, fdone, fstarted, fprog, fstopped, fobserved,
                 fUnderStop, selVars>>

\* Futures that are over: the task function returned or raised, or the
\* future was cancelled before it ran.
Over == {"done", "skipped", "failed", "cancelled"}

\* Lines 1201-1203 and the executor: a free worker takes the oldest pending
\* future; with the flag set the task returns at once, uncounted.
TaskStart(t) ==
  /\ spc \in {"loop", "shutdown"}
  /\ task[t] = "pending"
  /\ \A u \in Tasks : u < t => task[u] # "pending"
  /\ Cardinality({u \in Tasks : task[u] \in {"running", "counted"}}) < workers
  /\ task' = [task EXCEPT ![t] = IF stop_flag THEN "skipped" ELSE "running"]
  /\ UNCHANGED <<textVars,
                 stop_flag, runVars, orchVars, nameVars, guiVars, cancelReq,
                 fullVars, spc, workers, done_cnt, nloc, sprog, yielded,
                 sstopped>>

\* Lines 1206-1213: the handler returns and the completion is counted under
\* done_lock, n being the task's copy of the counter; or the handler raises
\* and the future keeps the exception.
TaskCount(t) ==
  /\ task[t] = "running"
  /\ \/ /\ done_cnt' = done_cnt + 1
        /\ nloc' = [nloc EXCEPT ![t] = done_cnt + 1]
        /\ task' = [task EXCEPT ![t] = "counted"]
     \/ /\ task' = [task EXCEPT ![t] = "failed"]
        /\ UNCHANGED <<done_cnt, nloc>>
  /\ UNCHANGED <<textVars,
                 stop_flag, runVars, orchVars, nameVars, guiVars, cancelReq,
                 fullVars, spc, workers, sprog, yielded, sstopped>>

\* Line 1214, outside the lock: the progress update carrying n is handed to
\* the event loop.
TaskReport(t) ==
  /\ task[t] = "counted"
  /\ sprog' = Append(sprog, nloc[t])
  /\ task' = [task EXCEPT ![t] = "done"]
  /\ UNCHANGED <<textVars,
                 stop_flag, runVars, orchVars, nameVars, guiVars, cancelReq,
                 fullVars, spc, workers, done_cnt, nloc, yielded, sstopped>>

\* Lines 1220-1224: as_completed yields a future that is over; with the
\* flag set every future not yet running is cancelled and the loop is left;
\* the loop also ends with the last future.
SelNext ==
  /\ spc = "loop"
  /\ Cardinality({t \in Tasks : task[t] \in Over}) > yielded
  /\ IF stop_flag
       THEN /\ task' = [t \in Tasks |->
                          IF task[t] = "pending" THEN "cancelled" ELSE task[t]]
            /\ spc' = "shutdown"
            /\ UNCHANGED yielded
       ELSE /\ yielded' = yielded + 1
            /\ spc' = IF yielded + 1 = MaxSel THEN "shutdown" ELSE "loop"
            /\ UNCHANGED task
  /\ UNCHANGED <<textVars,
                 stop_flag, runVars, orchVars, nameVars, guiVars, cancelReq,
                 fullVars, workers, done_cnt, nloc, sprog, sstopped>>

\* Lines 1218, 1225-1226: the with block waits for the pool to run dry;
\* the end line is posted and _finish_run is scheduled with the flag as it
\* is now.
M_PoolDry == TRUE

\* Line 1218: leaving the with block is shutdown(wait=True): it returns
\* when no future is pending or running any more.
PoolDry == \A t \in Tasks : task[t] \in Over

SelSchedule ==
  /\ spc = "shutdown"
  /\ PoolDry
  /\ sstopped' = stop_flag
  /\ spc' = "scheduled"
  /\ UNCHANGED <<textVars,
                 stop_flag, runVars, orchVars, nameVars, guiVars, cancelReq,
                 fullVars, workers, task, done_cnt, nloc, sprog, yielded>>

SelFinishRun ==
  /\ FinishRun(spc, sstopped)
  /\ UNCHANGED <<textVars,
                 stop_flag, runVars, orchVars, nameVars, cancelReq, fullVars,
                 workers, task, done_cnt, nloc, sprog, yielded, sstopped>>

SelDoEndAction ==
  /\ DoEndAction(spc)
  /\ UNCHANGED <<textVars,
                 stop_flag, runVars, orchVars, nameVars, guiVars, cancelReq,
                 fullVars, workers, task, done_cnt, nloc, sprog, yielded,
                 sstopped>>

(***************************************************************************)
(* infer_password, called for archives of one directory while files of the *)
(* directory come and go. The dict behind the default argument `cache` is  *)
(* created once and lives as long as the process.                          *)
(***************************************************************************)
MaxHintFiles == 2

PWD_HINT_EXTS ==
  { <<".", "t", "x", "t">>, <<".", "m", "d">>, <<".", "n", "f", "o">>,
    <<".", "u", "r", "l">>, <<".", "i", "n", "i">> }

\* Line 229: a file above 64 * 1024 bytes is passed over.
HintSizeLimit == 65536

\* Line 230: the characters of the content that are examined.
HintReadChars == 4000

\* Path.stem
Stem(name) == DropLast(name, Len(Suffix(name)))

\* The archives inference is asked about:
\*   教程【解压密码：abc123】.rar, 软件.zip and a[pwd=k1].zip
N_BRACKET ==
  <<Jiao, Cheng, LLentic, Jie, Ya, Mi, Ma, FwColon, "a", "b", "c", "1", "2",
    "3", RLentic>> \o DOT_RAR
N_PLAIN == <<Ruan, Jian>> \o DOT_ZIP
N_SQUARE == <<"a", "[", "p", "w", "d", "=", "k", "1", "]">> \o DOT_ZIP
ArcNames == {N_BRACKET, N_PLAIN, N_SQUARE}

\* Names the directory can have: dl and `pack PW=d7`.
ParentNames ==
  { <<"d", "l">>, <<"p", "a", "c", "k", " ", "P", "W", "=", "d", "7">> }

\* Entries the directory can hold beside the archive, each with its name,
\* its size in bytes, whether it is a regular file and the beginning of
\* its content:
\*   说明.txt  `提取码: xy9Z`      a.MD  `hello`      big.txt  `pw=big1`
\*   c.jpg  `pw=jpg1`            k.ini  a directory
\*   e.ini  `pw=edge`, of exactly 64 * 1024 bytes
F_XY ==
  [name |-> <<"U+8BF4", "U+660E", ".", "t", "x", "t">>, size |-> 15,
   isFile |-> TRUE,
   content |-> <<Ti, Qu, Ma, ":", " ", "x", "y", "9", "Z">>]
F_NOTE ==
  [name |-> <<"a", ".", "M", "D">>, size |-> 5, isFile |-> TRUE,
   content |-> <<"h", "e", "l", "l", "o">>]
F_BIG ==
  [name |-> <<"b", "i", "g", ".", "t", "x", "t">>, size |-> HintSizeLimit + 1,
   isFile |-> TRUE,
   content |-> <<"p", "w", "=", "b", "i", "g", "1">>]
F_JPG ==
  [name |-> <<"c", ".", "j", "p", "g">>, size |-> 7, isFile |-> TRUE,
   content |-> <<"p", "w", "=", "j", "p", "g", "1">>]
F_DIR ==
  [name |-> <<"k", ".", "i", "n", "i">>, size |-> 0, isFile |-> FALSE,
   content |-> <<>>]
F_EDGE ==
  [name |-> <<"e", ".", "i", "n", "i">>, size |-> HintSizeLimit,
   isFile |-> TRUE,
   content |-> <<"p", "w", "=", "e", "d", "g", "e">>]
HintFiles == {F_XY, F_NOTE, F_BIG, F_JPG, F_DIR, F_EDGE}

\* The one directory of the model, as the key of the cache.
DirKey == "dir"

\* What a call that raised hands to its caller.
Raised == <<"raised">>

\* Lines 224-231: the file is opened and its content examined.
IsRead(f) ==
  /\ f.isFile
  /\ Lower(Suffix(f.name)) \in PWD_HINT_EXTS
  /\ ~(f.size > HintSizeLimit)

\* Line 230: read_text(...)[:4000]
Content(f) ==
  SubSeq(f.content, 1,
         IF Len(f.content) < HintReadChars THEN Len(f.content) ELSE HintReadChars)

\* _extract_pwd_from_text on the texts of the model, computed once.
Texts ==
  ArcNames \cup {Stem(a) : a \in ArcNames} \cup ParentNames
    \cup {f.content : f \in HintFiles} \cup {Content(f) : f \in HintFiles}
PwdTable == [t \in Texts |-> extract_pwd_from_text(t)] @@ <<>>
PwdIn(text) == PwdTable[text]

\* Lines 223-240: the loop over the directory. rd are the files that are
\* read if the loop gets to them, pw the passwords their contents hold: the
\* files read, in order, up to the first whose content holds a password,
\* and that password.
ScanResult(rd, pw) ==
  LET hits == {i \in 1..Len(rd) : Truthy(pw[i])}
      n == IF hits = {} THEN Len(rd) ELSE SetMin(hits)
  IN [pwd |-> IF hits = {} THEN None ELSE pw[n],
      read |-> [i \in 1..n |-> rd[i].name]]
ScanRead(rd) == ScanResult(rd, [i \in 1..Len(rd) |-> PwdIn(Content(rd[i]))])
ScanDir(files) == ScanRead(SelectSeq(files, IsRead))

\* Lines 213-219: the sources that need no file, in the order they are
\* tried: arc.name, arc.stem, arc.parent.name.
M_NameSources(arc, parent) == <<parent, Stem(arc), arc>>

NameSources(arc, parent) == <<arc, Stem(arc), parent>>

\* Lines 235-239: cache[dir_key] = pwd, also when pwd is None.
M_CacheResult(c, pwd) == c

CacheResult(c, pwd) == (DirKey :> pwd) @@ c

\* Lines 213-240 on the passwords pw of the three names and the outcome
\* scan of the loop over the directory, which is run only where used.
Decide(pw, scan, canList, c) ==
  LET got == {i \in 1..3 : Truthy(pw[i])}
  IN IF got # {}
       THEN [pwd |-> pw[SetMin(got)], read |-> <<>>, cache |-> c,
             past |-> FALSE]
     ELSE IF DirKey \in DOMAIN c
       THEN [pwd |-> c[DirKey], read |-> <<>>, cache |-> c, past |-> TRUE]
     ELSE IF ~canList
       THEN [pwd |-> Raised, read |-> <<>>, cache |-> c, past |-> TRUE]
     ELSE [pwd |-> scan.pwd, read |-> scan.read,
           cache |-> CacheResult(c, scan.pwd), past |-> TRUE]

\* infer_password: what it returns, the files it reads, the cache it leaves
\* and whether it went past the parent directory name.
infer_password(arc, parent, files, canList, c) ==
  Decide([i \in 1..3 |-> PwdIn(NameSources(arc, parent)[i])], ScanDir(files),
         canList, c)

\* Directories: up to MaxHintFiles distinct entries, in any order.
RECURSIVE SeqsOf(_, _)
SeqsOf(S, n) ==
  IF n = 0 THEN {<<>>}
  ELSE LET shorter == SeqsOf(S, n - 1)
       IN shorter \cup
          {Append(q, f) : q \in {r \in shorter : Len(r) = n - 1}, f \in S}
Distinct(q) == \A i, j \in 1..Len(q) : q[i] = q[j] => i = j
Dirs == {q \in SeqsOf(HintFiles, MaxHintFiles) : Distinct(q)}

\* No call made, nothing cached.
PwdStart ==
  /\ listable = TRUE /\ cache = <<>> /\ calls = 0
  /\ arcName = <<>> /\ result = None /\ readFiles = <<>> /\ reached = FALSE
  /\ prevArc = <<>> /\ prevResult = None /\ prevReached = FALSE
  /\ changedSince = FALSE /\ changedBetween = FALSE /\ stale = FALSE

PwdInit ==
  /\ parentName \in ParentNames
  /\ dirFiles \in Dirs
  /\ PwdStart

\* password = infer_password(arc) (line 757), or the scan of a directory
\* (line 851), for an archive of the directory.
Infer ==
  \E a \in ArcNames :
    \E r \in {infer_password(a, parentName, dirFiles, listable, cache)} :
       /\ arcName' = a
       /\ result' = r.pwd
       /\ readFiles' = r.read
       /\ cache' = r.cache
       /\ reached' = r.past
       /\ calls' = IF calls < 2 THEN calls + 1 ELSE calls
       /\ prevArc' = arcName
       /\ prevResult' = result
       /\ prevReached' = reached
       /\ changedBetween' = changedSince
       /\ changedSince' = FALSE
       /\ UNCHANGED <<stop_flag, runVars, orchVars, nameVars, batchVars,
                      cmdVars, findVars, outVars, parentName, dirFiles, listable,
                      stale>>

\* The user, or a download, changes the directory: an entry appears, an
\* entry goes, or the directory stops or starts being listable.
DirChange ==
  /\ \/ /\ Len(dirFiles) < MaxHintFiles
        /\ \E f \in HintFiles :
             /\ \A i \in 1..Len(dirFiles) : dirFiles[i] # f
             /\ dirFiles' = Append(dirFiles, f)
        /\ UNCHANGED listable
     \/ /\ \E i \in 1..Len(dirFiles) :
             dirFiles' = SubSeq(dirFiles, 1, i - 1)
                           \o SubSeq(dirFiles, i + 1, Len(dirFiles))
        /\ UNCHANGED listable
     \/ /\ listable' = ~listable
        /\ UNCHANGED dirFiles
  /\ changedSince' = TRUE
  /\ stale' = (stale \/ DirKey \in DOMAIN cache)
  /\ UNCHANGED <<stop_flag, runVars, orchVars, nameVars, batchVars, cmdVars,
                 findVars, outVars, parentName, cache, calls, arcName, result, readFiles, reached,
                 prevArc, prevResult, prevReached, changedBetween>>

(***************************************************************************)
(* The command builders. A command is a list of arguments, an argument a   *)
(* sequence of characters.                                                 *)
(***************************************************************************)

\* Paths the commands are built with: the two executables, an archive, a
\* nested archive and the output directory.
BZ_EXE == <<"b", "z", ".", "e", "x", "e">>
SZ_EXE == <<"7", "z", ".", "e", "x", "e">>
ARC_PATH == <<"d", "/">> \o Arc
NESTED_PATH == <<"o", "u", "t", "/">> \o N_PLAIN
OUT_DIR == <<"o", "u", "t">>

Policies == {"skip", "rename", "overwrite"}

\* Passwords handed to a builder: None, the empty text, abc123 and xy9Z.
Passwords ==
  {None, <<>>, <<"a", "b", "c", "1", "2", "3">>, <<"x", "y", "9", "Z">>}

overwrite_flag(pol) ==
  CASE pol = "skip" -> <<"-", "a", "o", "s">>
    [] pol = "rename" -> <<"-", "a", "o", "u">>
    [] pol = "overwrite" -> <<"-", "a", "o", "a">>

\* list.insert(i, x) with Python's index i.
Insert(list, i, x) == SubSeq(list, 1, i) \o <<x>> \o SubSeq(list, i + 1, Len(list))

bandizip_cmd(bz, archive, outdir, pwd, pol) ==
  LET base == <<bz, <<"x">>, <<"-", "c", "p", ":", "6", "5", "0", "0", "1">>,
                overwrite_flag(pol), <<"-", "o", ":">> \o outdir>>
  IN (IF Truthy(pwd) THEN Insert(base, 2, <<"-", "p", ":">> \o pwd) ELSE base)
       \o <<archive>>

bandizip_test_cmd(bz, archive, pwd) ==
  (IF Truthy(pwd) THEN <<bz, <<"t">>, <<"-", "p", ":">> \o pwd>>
   ELSE <<bz, <<"t">>>>) \o <<archive>>

\* pwd = '' if password is None else password
SevenPwd(pwd) == IF pwd = None THEN <<>> ELSE pwd

sevenzip_cmd(sz, archive, outdir, pwd, pol) ==
  <<sz, <<"x">>, <<"-", "o">> \o outdir, overwrite_flag(pol),
    <<"-", "p">> \o SevenPwd(pwd), <<"-", "y">>, archive>>

M_sevenzip_test_cmd(sz, archive, pwd) ==
  (IF Truthy(pwd) THEN <<sz, <<"t">>, <<"-", "p">> \o pwd, <<"-", "y">>>>
   ELSE <<sz, <<"t">>, <<"-", "y">>>>) \o <<archive>>

sevenzip_test_cmd(sz, archive, pwd) ==
  <<sz, <<"t">>, <<"-", "p">> \o SevenPwd(pwd), <<"-", "y">>, archive>>

\* The command _test_archive (lines 1234-1237), _extract_with (lines
\* 1249-1252) and _extract_nested (lines 1276-1279) build for an engine.
ArchiveOf(kind) == IF kind = "nested" THEN NESTED_PATH ELSE ARC_PATH
BuildCmd(kind, eng, pwd, pol) ==
  IF kind = "test"
    THEN IF eng = "bandizip" THEN bandizip_test_cmd(BZ_EXE, ARC_PATH, pwd)
         ELSE sevenzip_test_cmd(SZ_EXE, ARC_PATH, pwd)
    ELSE IF eng = "bandizip"
           THEN bandizip_cmd(BZ_EXE, ArchiveOf(kind), OUT_DIR, pwd, pol)
           ELSE sevenzip_cmd(SZ_EXE, ArchiveOf(kind), OUT_DIR, pwd, pol)

CmdKinds == {"test", "extract", "nested"}
Engines == {"bandizip", "7zip"}

\* No command built.
CmdStart == bpc = "args" /\ cmd = <<>>

CmdInit ==
  /\ bKind \in CmdKinds
  /\ bEngine \in Engines
  /\ password \in Passwords
  /\ policy \in Policies
  /\ CmdStart

BuildCommand ==
  /\ bpc = "args"
  /\ bpc' = "built"
  /\ cmd' = BuildCmd(bKind, bEngine, password, policy)
  /\ UNCHANGED <<stop_flag, runVars, orchVars, nameVars, batchVars, pwdVars,
                 findVars, outVars, bKind, bEngine, password, policy>>

(***************************************************************************)
(* The choice of the executables at the start of _handle_one_archive       *)
(* (lines 774-798). A path is a record of the place and the file name.     *)
(***************************************************************************)
BZ == "bz.exe"
SZ == "7z.exe"

\* Lines 140-146: the fixed places find_on_path looks at, in their order,
\* whatever names it was asked for.
Candidates ==
  << [at |-> "F:/Bandizip", exe |-> BZ],
     [at |-> "ProgramFiles/Bandizip", exe |-> BZ],
     [at |-> "ProgramFiles(x86)/Bandizip", exe |-> BZ],
     [at |-> "ProgramFiles/7-Zip", exe |-> SZ],
     [at |-> "ProgramFiles(x86)/7-Zip", exe |-> SZ] >>

\* No path, where Python has None.
NoPath == [at |-> "", exe |-> ""]
NoTool == <<"none", NoPath>>

\* find_on_path: the first of names that shutil.which finds, else the first
\* candidate that is a file, else None.
find_on_path(names, onPath, files) ==
  LET hit == {i \in 1..Len(names) : names[i] \in onPath}
      there == {i \in 1..Len(Candidates) : i \in files}
  IN IF hit # {} THEN [at |-> "PATH", exe |-> names[SetMin(hit)]]
     ELSE IF there # {} THEN Candidates[SetMin(there)]
     ELSE NoPath

\* The paths of the two entry fields, when they are files.
CFG_BZ == [at |-> "var_bz", exe |-> BZ]
CFG_SZ == [at |-> "var_7z", exe |-> SZ]

\* Lines 774-794 with the outcome of the two calls of line 785 and 786.
ChooseFirst(bzAutoPath, szAutoPath) ==
  IF cfgBz THEN <<"bandizip", CFG_BZ>>
  ELSE IF cfgSz THEN <<"7zip", CFG_SZ>>
  ELSE IF bzAutoPath # NoPath THEN <<"bandizip", bzAutoPath>>
  ELSE IF szAutoPath # NoPath THEN <<"7zip", szAutoPath>>
  ELSE NoTool

ChooseSecond(bzAutoPath, szAutoPath) ==
  IF cfgBz THEN (IF cfgSz THEN <<"7zip", CFG_SZ>> ELSE NoTool)
  ELSE IF cfgSz THEN NoTool
  ELSE IF bzAutoPath # NoPath /\ szAutoPath # NoPath
    THEN <<"7zip", szAutoPath>>
  ELSE NoTool

FindStart == epc = "start" /\ toolFirst = NoTool /\ toolSecond = NoTool

FindInit ==
  /\ whichHit \in SUBSET {BZ, SZ}
  /\ present \in SUBSET (1..Len(Candidates))
  /\ cfgBz \in BOOLEAN
  /\ cfgSz \in BOOLEAN
  /\ FindStart

ChooseTools ==
  /\ epc = "start"
  /\ epc' = "chosen"
  /\ toolFirst' = ChooseFirst(find_on_path(<<BZ>>, whichHit, present),
                              find_on_path(<<SZ>>, whichHit, present))
  /\ toolSecond' = ChooseSecond(find_on_path(<<BZ>>, whichHit, present),
                                find_on_path(<<SZ>>, whichHit, present))
  /\ UNCHANGED <<stop_flag, runVars, orchVars, nameVars, batchVars, pwdVars,
                 cmdVars, outVars, whichHit, present, cfgBz, cfgSz>>

FindParked ==
  /\ whichHit = {} /\ present = {} /\ cfgBz = FALSE /\ cfgSz = FALSE /\ FindStart

(***************************************************************************)
(* The output directory of each archive of a batch (lines 759-768), for a  *)
(* pool of workers handling the archives of one selection. Paths are       *)
(* sequences of directory names, file names sequences of characters.       *)
(***************************************************************************)
ROOT == <<"r">>
OUT_BASE == <<"o">>

R_A_ZIP == [parent |-> <<"r">>, name |-> <<"a", ".", "z", "i", "p">>]
R_A_RAR == [parent |-> <<"r">>, name |-> <<"a", ".", "r", "a", "r">>]
R_B_ZIP == [parent |-> <<"r">>, name |-> <<"b", ".", "z", "i", "p">>]
SUB_A_ZIP == [parent |-> <<"r", "s">>, name |-> <<"a", ".", "z", "i", "p">>]
FAR_A_ZIP == [parent |-> <<"x">>, name |-> <<"a", ".", "z", "i", "p">>]
Archives == {R_A_ZIP, R_A_RAR, R_B_ZIP, SUB_A_ZIP, FAR_A_ZIP}

\* The items of a selection are tree ids, that is paths: no path twice.
Selections == {q \in SeqsOf(Archives, MaxSel) : Len(q) = MaxSel /\ Distinct(q)}

NoDir == <<"None">>

\* `root in arc.parents`: root is the parent of arc or above it.
InParents(root, arc) ==
  Len(root) <= Len(arc.parent) /\ SubSeq(arc.parent, 1, Len(root)) = root

\* arc.parent.relative_to(root)
RelativeTo(dir, root) == SubSeq(dir, Len(root) + 1, Len(dir))

\* Lines 1204, 1209: root_for_rel = root if root.is_dir() else arc.parent.
RootForRel(arc, isDir) == IF isDir THEN ROOT ELSE arc.parent

\* Lines 759-767: out_dir is out_base / rel / arc.stem with an output root
\* configured, arc.parent / arc.stem without. relative_to is called only
\* under `root_for_rel in arc.parents`, so it does not raise.
OutDir(arc, configured, isDir) ==
  IF configured
    THEN LET root_for_rel == RootForRel(arc, isDir)
             rel == IF InParents(root_for_rel, arc)
                      THEN RelativeTo(arc.parent, root_for_rel)
                      ELSE <<>>
         IN OUT_BASE \o rel \o <<Stem(arc.name)>>
    ELSE arc.parent \o <<Stem(arc.name)>>

OutStart ==
  /\ otask = [t \in Tasks |-> "pending"]
  /\ out_dir = [t \in Tasks |-> NoDir]

OutInit ==
  /\ var_out \in BOOLEAN
  /\ rootIsDir \in BOOLEAN
  /\ osel \in Selections
  /\ oworkers \in 1..MaxWorkers
  /\ OutStart

\* Lines 1201-1209, 759-768: a free worker takes the oldest pending task;
\* _handle_one_archive computes out_dir, creates it and goes on to extract
\* into it.
OutTaskStart(t) ==
  /\ otask[t] = "pending"
  /\ \A u \in Tasks : u < t => otask[u] # "pending"
  /\ Cardinality({u \in Tasks : otask[u] = "extracting"}) < oworkers
  /\ out_dir' = [out_dir EXCEPT ![t] = OutDir(osel[t], var_out, rootIsDir)]
  /\ otask' = [otask EXCEPT ![t] = "extracting"]
  /\ UNCHANGED <<stop_flag, runVars, orchVars, nameVars, batchVars, pwdVars,
                 cmdVars, findVars, var_out, rootIsDir, osel, oworkers>>

\* Lines 1210-1214: _handle_one_archive returns and the task ends.
OutTaskEnd(t) ==
  /\ otask[t] = "extracting"
  /\ otask' = [otask EXCEPT ![t] = "returned"]
  /\ UNCHANGED <<stop_flag, runVars, orchVars, nameVars, batchVars, pwdVars,
                 cmdVars, findVars, var_out, rootIsDir, osel, oworkers,
                 out_dir>>

OutParked ==
  /\ var_out = FALSE /\ rootIsDir = TRUE
  /\ osel = <<>> /\ oworkers = 1 /\ OutStart

\* No inference in progress, no command being built.
PwdParked ==
  /\ parentName = <<"d", "l">> /\ dirFiles = <<>> /\ PwdStart
CmdParked ==
  /\ bKind = "test" /\ bEngine = "7zip" /\ password = None
  /\ policy = "skip" /\ CmdStart
TextParked == PwdParked /\ CmdParked /\ FindParked /\ OutParked

\* run_cmd not in use.
RunParked == RunInit /\ quiet_limit = MinQuiet /\ ~monitor_dir

\* No archive being handled.
OrchParked ==
  /\ OrchInit
  /\ ~var_pretest /\ ~var_cross_try /\ ~var_nested /\ ~var_delete
  /\ ~bzOk /\ ~szOk /\ ~bzAuto /\ ~szAuto /\ sig = "zip"

\* No directory under examination.
NamesParked ==
  /\ fam = [conv |-> "rar", w |-> 1, k |-> 1]
  /\ listing = <<>> /\ ndisk = {} /\ locked = {}
  /\ npc = "end" /\ ci = 1 /\ cls = <<>> /\ gi = 1 /\ found = <<>>
  /\ delArc = <<>> /\ todo = <<>> /\ removed = 0 /\ reported = 0

InitRun ==
  /\ stop_flag \in BOOLEAN
  /\ RunInit
  /\ OrchParked
  /\ NamesParked
  /\ BatchInit
  /\ TextParked

NextRun ==
  \/ RunPopen
  \/ ReaderCheckStop
  \/ ReaderReadline
  \/ ReaderWait
  \/ ReaderJoin
  \/ MonLoop
  \/ MonSize
  \/ MonBeat
  \/ MonWake
  \/ ChildWrite
  \/ ChildExit
  \/ DirGrow
  \/ RunStop
  \/ Tick

SpecRun == InitRun /\ [][NextRun]_vars

Init ==
  /\ stop_flag = FALSE
  /\ OrchInit
  /\ RunParked
  /\ NamesParked
  /\ BatchInit
  /\ TextParked

Next ==
  \/ HandlePrepare
  \/ CmdPopen
  \/ CmdCheckStop
  \/ CmdReadline
  \/ AfterTest1
  \/ AfterTest2
  \/ AfterExtract1
  \/ AfterExtract2
  \/ NestedStep
  \/ NestedDone
  \/ OrchStop

Spec == Init /\ [][Next]_vars

InitNames ==
  /\ stop_flag = FALSE
  /\ RunParked
  /\ OrchParked
  /\ NamesInit
  /\ BatchInit
  /\ TextParked

NextNames ==
  \/ Classify
  \/ GatherStep
  \/ CleanupBegin
  \/ Unlink
  \/ CleanupEnd

SpecNames == InitNames /\ [][NextNames]_vars

InitBatch ==
  /\ stop_flag = FALSE
  /\ RunParked
  /\ OrchParked
  /\ NamesParked
  /\ BatchInit
  /\ TextParked

NextBatch ==
  \/ OnStartFull
  \/ OnExtractSelected
  \/ OnStop
  \/ FullLoop
  \/ FullHandleEnd
  \/ FullSchedule
  \/ FullFinishRun
  \/ FullDoEndAction
  \/ \E t \in Tasks : TaskStart(t)
  \/ \E t \in Tasks : TaskCount(t)
  \/ \E t \in Tasks : TaskReport(t)
  \/ SelNext
  \/ SelSchedule
  \/ SelFinishRun
  \/ SelDoEndAction

SpecBatch == InitBatch /\ [][NextBatch]_vars

InitPwd ==
  /\ stop_flag = FALSE
  /\ RunParked
  /\ OrchParked
  /\ NamesParked
  /\ BatchInit
  /\ PwdInit
  /\ CmdParked
  /\ FindParked
  /\ OutParked

NextPwd ==
  \/ Infer
  \/ DirChange

SpecPwd == InitPwd /\ [][NextPwd]_vars

InitCmd ==
  /\ stop_flag = FALSE
  /\ RunParked
  /\ OrchParked
  /\ NamesParked
  /\ BatchInit
  /\ PwdParked
  /\ CmdInit
  /\ FindParked
  /\ OutParked

NextCmd == BuildCommand

SpecCmd == InitCmd /\ [][NextCmd]_vars

InitFind ==
  /\ stop_flag = FALSE
  /\ RunParked
  /\ OrchParked
  /\ NamesParked
  /\ BatchInit
  /\ PwdParked
  /\ CmdParked
  /\ FindInit
  /\ OutParked

NextFind == ChooseTools

SpecFind == InitFind /\ [][NextFind]_vars

InitOut ==
  /\ stop_flag = FALSE
  /\ RunParked
  /\ OrchParked
  /\ NamesParked
  /\ BatchInit
  /\ PwdParked
  /\ CmdParked
  /\ FindParked
  /\ OutInit

NextOut ==
  \/ \E t \in Tasks : OutTaskStart(t)
  \/ \E t \in Tasks : OutTaskEnd(t)

SpecOut == InitOut /\ [][NextOut]_vars

(***************************************************************************)
(* Properties of run_cmd (checked under SpecRun).                          *)
(***************************************************************************)

\* The calling thread is blocked in readline: the child is alive and has
\* written nothing that is still unread.
ReaderBlocked == rpc = "readline" /\ child = "running" /\ pipe = 0

\* C1: once the cancellation signal has been set for more than one watchdog
\* poll interval, run_cmd is not still blocked on a child that stays silent
\* and does not exit: it has terminated the child and returned.
C1_CancelWithinPoll ==
  (stop_flag /\ stopAge > PollInterval) => ~ReaderBlocked

\* C2: called with the cancellation signal already set, run_cmd starts the
\* child, never reaches readline and logs no output line, and once it has
\* returned it has called terminate and the result is the cancelled one.
C2_PresetCancel ==
  (stopAtCall /\ child # "none") =>
     /\ rpc \in {"check", "done"}
     /\ nLine = 0
     /\ rpc = "done" => (rc = RC_CANCEL /\ killed /\ child # "running")

\* Witness of C2: a call with the signal set whose child had already written
\* a line returned the cancelled result without reading it.
C2_Witness ==
  /\ stopAtCall /\ rpc = "done" /\ rc = RC_CANCEL
  /\ child = "terminated" /\ pipe > 0 /\ nLine = 0

\* C9: the child is terminated only when the cancellation signal is set;
\* silence alone, however long, only produces heartbeat lines.
C9_KillOnlyOnCancel ==
  (killed \/ child = "terminated") => stop_flag

\* Witness of C9: a child silent for two quiet intervals got two heartbeats
\* and is still running.
C9_Witness ==
  /\ nBeat >= 2 /\ written = 0 /\ dirSize = 0
  /\ child = "running" /\ ~killed /\ ~stop_flag

\* The watchdog is alive and watching a running child.
Watching ==
  /\ mpc \in {"loop", "size", "beat", "sleep"}
  /\ child = "running"
  /\ ~mon_stop

C26_QuietAfterReturn ==
  [][rpc = "done" => (nSize' = nSize /\ nBeat' = nBeat)]_vars

(***************************************************************************)
(* Properties of _handle_one_archive (checked under Spec).                 *)
(***************************************************************************)

Rng(q) == {q[i] : i \in 1..Len(q)}

\* The files of the archive's own family.
SourceFiles == {f \in AllFiles : f[1] = "a"}

\* Return values by kind.
Inconclusive(code) == code \in {RC_CANCEL, RC_NOTFOUND, RC_ERROR}
ConclusiveFail(code) == code # 0 /\ ~Inconclusive(code)

Returned(kind, slot) == {r \in Rng(rets) : r.kind = kind /\ r.slot = slot}
TopLevelReturns == {r \in Rng(rets) : r.kind \in {"test", "extract"}}
ExtractInvoked == \E c \in Rng(invoked) : c.kind = "extract"
ExtractSucceeded == \E r \in Rng(rets) : r.kind = "extract" /\ r.rc = 0
FailureLines == {"not_archive", "no_engine", "corrupt", "extract_failed"}

\* C3: when a test or extract command of the archive returned the cancelled
\* value, neither the "corrupt or missing parts" line nor the "extraction
\* failed" line is posted for the archive.
C3_CancelNotReportedFailed ==
  (\E r \in TopLevelReturns : r.rc = RC_CANCEL) =>
     posted \cap {"corrupt", "extract_failed"} = {}

\* C4: a file of the archive's family is missing only if source deletion is
\* enabled and an extract command of the archive returned 0; after a
\* skipped, failed, pretest-failed or cancelled outcome the whole family is
\* still on disk.
C4_DeleteOnlyOnSuccess ==
  /\ SourceFiles \ disk # {} => (var_delete /\ ExtractSucceeded)
  /\ posted \cap FailureLines # {} => SourceFiles \subseteq disk
  /\ (\E r \in TopLevelReturns : r.rc = RC_CANCEL) => SourceFiles \subseteq disk

\* Witness of C4: the family was deleted after a successful extraction and
\* the unrelated file is still there.
C4_Witness ==
  /\ opc = "done" /\ var_delete /\ ExtractSucceeded
  /\ SourceFiles \cap disk = {} /\ disk # {}

\* C5: with pretest on, once the primary and the secondary test have both
\* failed conclusively, no extract command is ever started and the archive
\* ends with the "corrupt or missing parts" line.
C5_BothTestsFail ==
  (/\ var_pretest
   /\ \E r \in Returned("test", "first") : ConclusiveFail(r.rc)
   /\ \E r \in Returned("test", "second") : ConclusiveFail(r.rc)) =>
     /\ ~ExtractInvoked
     /\ opc \in {"test2", "done"}
     /\ opc = "done" => "corrupt" \in posted

\* Witness of C5: both tests failed conclusively and the handler is done.
C5_Witness ==
  /\ opc = "done"
  /\ \E r \in Returned("test", "first") : ConclusiveFail(r.rc)
  /\ \E r \in Returned("test", "second") : ConclusiveFail(r.rc)

\* C6: with pretest on, once the test has failed conclusively on every
\* engine selected (both, or the only one), no extract command is started,
\* no file is deleted and the archive ends with a failure line.
C6_AllEnginesFail ==
  (/\ var_pretest
   /\ \E r \in Returned("test", "first") : ConclusiveFail(r.rc)
   /\ second = "none" \/ \E r \in Returned("test", "second") : ConclusiveFail(r.rc)) =>
     /\ ~ExtractInvoked
     /\ SourceFiles \subseteq disk
     /\ opc = "done" => "corrupt" \in posted

\* C7: a test that returned an inconclusive value (cancelled, tool missing,
\* execution error), on either engine, is never followed by the "corrupt or
\* missing parts" line: the next command started is the primary extract, and
\* the handler does not finish without it.
C7_InconclusiveFallsThrough ==
  \A i \in 1..Len(rets) :
    (rets[i].kind = "test" /\ Inconclusive(rets[i].rc)) =>
       /\ "corrupt" \notin posted
       /\ Len(invoked) > i =>
            (invoked[i + 1].kind = "extract" /\ invoked[i + 1].slot = "first")
       /\ opc = "done" => Len(invoked) > i

\* Witness of C7: the primary test failed, the secondary test was
\* inconclusive, and the handler finished after extracting.
C7_Witness ==
  /\ opc = "done" /\ ExtractInvoked
  /\ \E r \in Returned("test", "first") : ConclusiveFail(r.rc)
  /\ \E r \in Returned("test", "second") : Inconclusive(r.rc)

\* C8: with cross-fallback off, the secondary engine is never started, in no
\* phase, and once the primary extract has returned nonzero the archive ends
\* with the "extraction failed" line.
C8_NoFallbackWhenDisabled ==
  ~var_cross_try =>
     /\ \A c \in Rng(invoked) : c.slot # "second"
     /\ (\E r \in Returned("extract", "first") : r.rc # 0) =>
          /\ opc \in {"extract1", "done"}
          /\ opc = "done" => "extract_failed" \in posted

\* Witness of C8: a secondary engine exists, cross-fallback is off, the
\* primary test and the primary extract both failed, the handler is done.
C8_Witness ==
  /\ ~var_cross_try /\ second = "7zip" /\ opc = "done"
  /\ \E r \in Returned("test", "first") : ConclusiveFail(r.rc)
  /\ \E r \in Returned("extract", "first") : ConclusiveFail(r.rc)


\* Outcome lines by the terminal state they report.
SkippedReported == "not_archive" \in posted
FailedReported == posted \cap {"no_engine", "corrupt", "extract_failed"} # {}
DoneReported == posted \cap {"deleted", "nested_done"} # {}

\* C14: an archive whose handling has ended was reported to the sink in
\* exactly one terminal state: skipped, failed or done.
C14_OneOutcomeLine ==
  opc = "done" =>
     \/ SkippedReported /\ ~FailedReported /\ ~DoneReported
     \/ ~SkippedReported /\ FailedReported /\ ~DoneReported
     \/ ~SkippedReported /\ ~FailedReported /\ DoneReported

\* C20: for an archive whose leading bytes are those of an HTML, XML or PDF
\* document no password is inferred, no output folder is made, no engine is
\* selected, no command is started and no file is deleted; it ends with the
\* non-archive warning alone, not with a failure line.
C20_NonArchiveSkipped ==
  sig \in {"html", "xml", "pdf"} =>
     /\ ~pwdInferred /\ ~mkdirCalled
     /\ first = "none" /\ second = "none"
     /\ invoked = <<>> /\ rets = <<>>
     /\ disk = AllFiles
     /\ opc \in {"start", "done"}
     /\ posted = IF opc = "done" THEN {"not_archive"} ELSE {}

\* Witness of C20: a PDF document was handled and skipped with the warning.
C20_Witness ==
  sig = "pdf" /\ opc = "done" /\ posted = {"not_archive"} /\ disk = AllFiles


\* The nested archives by family, and the nested commands that returned 0.
NestedFamily(f) ==
  IF f \in {NestedNames[1], NestedNames[2]}
    THEN {NestedNames[1], NestedNames[2]} ELSE {f}
NestedRets == SelectSeq(rets, LAMBDA r : r.kind = "nested")
NestedSucceeded(a) ==
  \E j \in 1..Len(NestedRets) : nestedArcs[j] = a /\ NestedRets[j].rc = 0

\* C27: nested extract commands are started only with nested extraction
\* enabled and after a top-level extract command returned 0; a file of
\* out_dir is unlinked only with source deletion enabled and after the
\* extract command of an archive of its own family returned 0; and no
\* nested command is started on a fragment other than a first part.
C27_NestedGuards ==
  /\ (opc = "nested" \/ nestedArcs # <<>>) => (var_nested /\ ExtractSucceeded)
  /\ \A f \in ndel :
        var_delete /\ \E a \in NestedFamily(f) : NestedSucceeded(a)
  /\ NestedNames[2] \notin Rng(nestedArcs)

\* The test and the extract commands of the archive, in the order started.
Tests == SelectSeq(invoked, LAMBDA c : c.kind = "test")
Extracts == SelectSeq(invoked, LAMBDA c : c.kind = "extract")

\* C28: the first extract command started is the primary engine's, whatever
\* the tests returned; a second one is the secondary engine's, started only
\* with cross-fallback on and after the primary extract returned a nonzero
\* value; there are at most two test and two extract commands.
C28_ExtractOrder ==
  /\ Len(Tests) <= 2 /\ Len(Extracts) <= 2
  /\ Len(Extracts) >= 1 => Extracts[1] = Call("extract", "first", first)
  /\ Len(Extracts) = 2 =>
        /\ Extracts[2] = Call("extract", "second", second)
        /\ var_cross_try
        /\ \E r \in Returned("extract", "first") : r.rc # 0

\* Witness of C28: both tests and both extract commands were started, the
\* primary test having failed and the secondary test passed.
C28_Witness ==
  /\ Len(Tests) = 2 /\ Len(Extracts) = 2
  /\ \E r \in Returned("test", "first") : ConclusiveFail(r.rc)
  /\ \E r \in Returned("test", "second") : r.rc = 0

\* C32: once the end of a batch over the selected items has been reported,
\* every future of the batch is over (returned, raised, skipped or
\* cancelled), and from then on no task starts, counts a completion or
\* hands over a progress update, whether or not the batch was stopped.
SelReported == spc \in {"scheduled", "endwait", "ended", "acted"}

C33_DistinctOutDirs ==
  \A t, u \in Tasks :
    (t # u /\ out_dir[t] # <<"None">> /\ out_dir[u] # <<"None">>) =>
      out_dir[t] # out_dir[u]

\* C36: every nested extract command is the only command for its nested
\* archive, and its engine is the engine of the top-level extract command
\* that returned 0.
C36_NestedEngine ==
  /\ Len(SelectSeq(invoked, LAMBDA c : c.kind = "nested")) <= Len(nestedArcs)
  /\ \A c \in Rng(invoked) :
        c.kind = "nested" =>
          \E r \in Rng(rets) : r.kind = "extract" /\ r.rc = 0 /\ r.eng = c.eng

\* Engine selection has been carried out for the archive.
Selected == opc \notin {"start", "raised"} /\ sig \notin {"html", "xml", "pdf"}

\* C29: after engine selection a second engine exists only beside a first
\* one of the other family; with both configured executables present
\* Bandizip is first and 7-Zip second; find_on_path is asked only when no
\* configured executable exists; and with no engine the archive ends with
\* the "no extraction program" line and no command was started.
C29_EngineSelection ==
  /\ autoTried => (~bzOk /\ ~szOk)
  /\ Selected =>
        /\ second # "none" => (first # "none" /\ first # second)
        /\ (bzOk /\ szOk) => (first = "bandizip" /\ second = "7zip")
        /\ first = "none" =>
              (opc = "done" /\ posted = {"no_engine"} /\ invoked = <<>>)

\* Witness of C29: nothing configured, nothing found: the archive ended with
\* the "no extraction program" line.
C29_Witness ==
  /\ Selected /\ autoTried /\ first = "none" /\ second = "none"
  /\ opc = "done" /\ posted = {"no_engine"} /\ invoked = <<>>

(***************************************************************************)
(* Properties of discovery and source deletion (checked under SpecNames).  *)
(***************************************************************************)

\* The directory's families and files, as they were built.
FragsA == {FamA(fam)[n] : n \in 1..fam.k}
FragsB == {FamB[n] : n \in 1..2}
FirstParts == {FamA(fam)[1], FamB[1]}
NonFirst == (FragsA \cup FragsB) \ FirstParts
M_RAR == <<"m", ".", "r", "a", "r">>
SingleArchives == {A_RAR, M_RAR, A_PARTIAL_RAR}
FamilyOf(f) == IF f \in FragsA THEN FragsA ELSE IF f \in FragsB THEN FragsB ELSE {f}
Classified == npc # "classify"
Gathered == npc \in {"handle", "unlink", "end"}

\* C17: when the source deletion of a discovered archive has ended and no
\* unlink of its family was refused, no file of its family is left on disk,
\* whatever the family's naming convention; and the count in the deletion
\* line is the number of files that were removed.
C17_WholeFamilyDeleted ==
  npc = "end" =>
     /\ reported = Cardinality(Rng(listing) \ ndisk)
     /\ FamilyOf(delArc) \cap locked = {} => FamilyOf(delArc) \cap ndisk = {}

\* C18: once every file of the directory has been classified, a fragment of
\* a family is classified as first if and only if it is the fragment
\* numbered 1, so exactly one fragment per family is.
C18_ExactlyOneFirst ==
  Classified =>
     \A i \in 1..Len(cls) :
        /\ listing[i] \in FragsA \cup FragsB =>
              (cls[i][2] <=> listing[i] \in FirstParts)
        /\ listing[i] \in FirstParts => cls[i][1]

\* Witness of C18: an eleven-part family with two-digit part numbers was
\* classified: part01 is first, part10 and part11 are multipart and not first.
C18_Witness ==
  /\ Classified /\ fam = [conv |-> "rar", w |-> 2, k |-> 11]
  /\ \E i, j, l \in 1..Len(cls) :
       /\ listing[i] = Frag("rar", <<"a">>, 1, 2) /\ cls[i] = <<TRUE, TRUE>>
       /\ listing[j] = Frag("rar", <<"a">>, 10, 2) /\ cls[j] = <<TRUE, FALSE>>
       /\ listing[l] = Frag("rar", <<"a">>, 11, 2) /\ cls[l] = <<TRUE, FALSE>>

\* C19: the result of gather_archives holds no fragment other than a first
\* part and at most one path per family; it is the single-file archives and
\* the first parts of the directory, in traversal order; for a.rar,
\* a.part1.rar + a.part2.rar and b.7z.001 + b.7z.002 it is a.rar,
\* a.part1.rar, b.7z.001.
C19_GatherFirstPartsOnly ==
  Gathered =>
     /\ Rng(found) \cap NonFirst = {}
     /\ \A i, j \in 1..Len(found) :
           FamilyOf(found[i]) = FamilyOf(found[j]) => i = j
     /\ found = InOrder(SingleArchives \cup FirstParts)
     /\ listing = <<A_RAR>> \o FamA([conv |-> "rar", w |-> 1, k |-> 2]) \o FamB
          => found = <<A_RAR, Frag("rar", <<"a">>, 1, 1), FamB[1]>>

\* Witness of C19: the walk of the directory a.rar, a.part1.rar,
\* a.part2.rar, b.7z.001, b.7z.002 has ended and returned three paths.
C19_Witness ==
  /\ Gathered
  /\ listing = <<A_RAR>> \o FamA([conv |-> "rar", w |-> 1, k |-> 2]) \o FamB
  /\ Len(found) = 3


\* C30: the files that the source deletion of a discovered archive has
\* removed all belong to that archive's family: a file that only shares
\* the beginning of the name, such as a.partial.rar or a.zst, stays.
C30_OnlyFamilyDeleted ==
  (Rng(listing) \ ndisk) \subseteq FamilyOf(delArc)

(***************************************************************************)
(* Properties of batches (checked under SpecBatch).                        *)
(***************************************************************************)

PcOf(b) == IF b = "full" THEN fpc ELSE spc
Increasing(q) == \A i, j \in 1..Len(q) : i < j => q[i] < q[j]

\* C11: while a batch that was processing when the stop was requested is
\* still processing, the flag is set: nothing clears it before that batch
\* has reported its end.
C11_FlagStaysSet ==
  \A b \in cancelReq : Active(b) => stop_flag

\* C12: the on-completion action is never carried out for a batch during
\* whose processing a stop was requested; such a batch, once over, has been
\* reported as stopped.
C12_NoEndActionAfterCancel ==
  \A b \in cancelReq : PcOf(b) # "acted"

\* C13: no exception of _handle_one_archive ends the worker thread of a
\* batch: after a failed archive the thread goes on to the remaining
\* archives and to the report of the batch's end.
C13_ErrorDoesNotAbort ==
  fpc # "crashed" /\ spc # "crashed"

\* C15: in a full run the archives are started one at a time in discovery
\* order, done is incremented and reported after each archive, no archive
\* is started on a set flag, and a run that left its loop on a set flag
\* started nothing more and has done < total.
C15_SequentialOrder ==
  /\ fstarted = [i \in 1..Len(fstarted) |-> i]
  /\ Len(fstarted) = fdone + (IF fpc \in {"handling", "crashed"} THEN 1 ELSE 0)
  /\ fprog = [i \in 1..fdone |-> i]
  /\ ~fUnderStop
  /\ fobserved => (fdone < ftotal /\ fpc # "handling" /\ fidx = fdone + 1)

\* Witness of C15: a full run of two archives left its loop on a set flag
\* after the first.
C15_Witness ==
  fobserved /\ ftotal = 2 /\ fdone = 1 /\ fprog = <<1>> /\ fpc = "scheduled"

\* C16: in a run over the selected items the done values handed to the
\* event loop are strictly increasing, every completion is counted once,
\* and done never exceeds total.
C16_ProgressIncreasing ==
  /\ Increasing(sprog)
  /\ done_cnt = Cardinality({t \in Tasks : task[t] \in {"counted", "done"}})
  /\ done_cnt <= MaxSel

(***************************************************************************)
(* Properties of the command builders (checked under SpecCmd).             *)
(***************************************************************************)

\* The arguments of the built command that begin with pre.
ArgsWith(pre) == {i \in 1..Len(cmd) : StartsWith(cmd[i], pre)}

\* C21: a built 7-Zip command, for test, extract or nested extract, has
\* exactly one argument that begins with -p, and it is -p followed by the
\* password, by nothing when the password is None; a built Bandizip command
\* has an argument that begins with -p only for a non-empty password, and
\* it is -p: followed by the password; in both the archive path is last.
C21_PasswordArgument ==
  bpc = "built" =>
    /\ cmd[Len(cmd)] = ArchiveOf(bKind)
    /\ bEngine = "7zip" =>
          /\ Cardinality(ArgsWith(<<"-", "p">>)) = 1
          /\ \A i \in ArgsWith(<<"-", "p">>) :
                cmd[i] = <<"-", "p">> \o (IF password = None THEN <<>> ELSE password)
    /\ bEngine = "bandizip" =>
          IF password \in {None, <<>>}
            THEN ArgsWith(<<"-", "p">>) = {}
            ELSE /\ Cardinality(ArgsWith(<<"-", "p">>)) = 1
                 /\ \A i \in ArgsWith(<<"-", "p">>) :
                       cmd[i] = <<"-", "p", ":">> \o password

\* Witness of C21: the 7-Zip test command built without a password carries
\* the bare -p, before the archive.
C21_Witness ==
  /\ bpc = "built" /\ bEngine = "7zip" /\ bKind = "test" /\ password = None
  /\ cmd = <<SZ_EXE, <<"t">>, <<"-", "p">>, <<"-", "y">>, ARC_PATH>>

(***************************************************************************)
(* Properties of the password inference (checked under SpecPwd).           *)
(***************************************************************************)

ABC123 == <<"a", "b", "c", "1", "2", "3">>
XY9Z == <<"x", "y", "9", "Z">>

\* The last call saw the directory as it is now, the directory is as it
\* was when its result was cached, and the call returned.
DirCurrent == calls > 0 /\ ~changedSince /\ ~stale /\ listable

\* Entries of the directory with a known suffix whose content holds a
\* password marker.
MarkedHints ==
  {f \in Rng(dirFiles) :
     /\ f.isFile
     /\ Lower(Suffix(f.name)) \in PWD_HINT_EXTS
     /\ PwdIn(f.content) # None}

\* C22: the first of filename, stem and parent directory name that holds a
\* password decides; a call that read a hint file found none in these
\* three; and when none of the three holds one, the result is a password
\* of a hint file of the directory, None when no hint file holds one.
C22_SourceOrder ==
  calls > 0 =>
    LET byName == PwdIn(arcName)
        byStem == PwdIn(Stem(arcName))
        byParent == PwdIn(parentName)
    IN /\ Truthy(byName) => result = byName
       /\ (~Truthy(byName) /\ Truthy(byStem)) => result = byStem
       /\ (~Truthy(byName) /\ ~Truthy(byStem) /\ Truthy(byParent)) =>
              result = byParent
       /\ readFiles # <<>> =>
              (~Truthy(byName) /\ ~Truthy(byStem) /\ ~Truthy(byParent))
       /\ (~Truthy(byName) /\ ~Truthy(byStem) /\ ~Truthy(byParent)
             /\ DirCurrent) =>
              result \in {None} \cup
                 {PwdIn(f.content) : f \in MarkedHints}

\* Witness of C22: the archive name, the directory name and a hint file all
\* hold a password; the one of the archive name is returned and no file
\* was read.
C22_Witness ==
  /\ calls > 0 /\ arcName = N_SQUARE /\ result = <<"k", "1">>
  /\ PwdIn(parentName) = <<"d", "7">>
  /\ dirFiles = <<F_XY>> /\ readFiles = <<>> /\ DirKey \notin DOMAIN cache

\* C23: for the archive 教程【解压密码：abc123】.rar inference returns abc123.
C23_BracketName ==
  (calls > 0 /\ arcName = N_BRACKET) => result = ABC123

\* C24: for 软件.zip in the directory dl, neither name holding a marker, with
\* the hint file 说明.txt of content `提取码: xy9Z` in the directory and no
\* other hint file that holds a marker (big.txt and e.ini are the ones
\* that do), inference returns xy9Z.
C24_HintFileYields ==
  ( /\ DirCurrent
    /\ arcName = N_PLAIN
    /\ parentName = <<"d", "l">>
    /\ F_XY \in Rng(dirFiles)
    /\ F_BIG \notin Rng(dirFiles)
    /\ F_EDGE \notin Rng(dirFiles) ) => result = XY9Z

\* Witness of C24: 软件.zip in the directory dl beside a.MD and 说明.txt; both
\* files were read and xy9Z was returned and cached.
C24_Witness ==
  /\ DirCurrent /\ arcName = N_PLAIN /\ parentName = <<"d", "l">>
  /\ dirFiles = <<F_NOTE, F_XY>>
  /\ readFiles = <<F_NOTE.name, F_XY.name>>
  /\ result = XY9Z /\ cache[DirKey] = XY9Z

\* C25: a second call for the same archive, with no change of the directory
\* since the first, returns what the first returned, and reads no file
\* when the first went past the directory name.
C25_Idempotent ==
  (calls = 2 /\ prevArc = arcName /\ ~changedBetween) =>
    /\ result = prevResult
    /\ prevReached => readFiles = <<>>

\* Witness of C25: two calls for 软件.zip in a directory whose one hint file
\* holds no password; both returned None, the second from the cache.
C25_Witness ==
  /\ calls = 2 /\ prevArc = N_PLAIN /\ arcName = N_PLAIN /\ ~changedBetween
  /\ ~changedSince /\ ~stale /\ dirFiles = <<F_NOTE>>
  /\ prevReached /\ prevResult = None /\ result = None
  /\ readFiles = <<>> /\ cache[DirKey] = None

\* C31: every file a call has read is smaller than 64 KiB: a hint file of
\* 65536 bytes or more is never read.
C31_ReadBelowLimit ==
  \A f \in Rng(dirFiles) :
    (~changedSince /\ f.name \in Rng(readFiles)) => f.size < 65536

\* C34: a call that went past the directory name and returned has returned
\* what a scan of the directory as it is at the call returns, whatever was
\* cached before.
C34_CacheFresh ==
  (calls > 0 /\ ~changedSince /\ reached /\ result # Raised) =>
    result = ScanDir(dirFiles).pwd

(***************************************************************************)
(* Properties of the choice of executables (checked under SpecFind).       *)
(***************************************************************************)

\* The executable of the engine family the tool is named after.
OwnFamily(tool) ==
  (tool[1] = "bandizip" => tool[2].exe = "bz.exe")
    /\ (tool[1] = "7zip" => tool[2].exe = "7z.exe")

\* C35: when no configured executable exists and the executables were
\* found by find_on_path, the one named bandizip is a bz.exe, the one named
\* 7zip is a 7z.exe, and the two are not the same file.
C35_OwnExecutable ==
  (epc = "chosen" /\ ~cfgBz /\ ~cfgSz) =>
    /\ OwnFamily(toolFirst)
    /\ OwnFamily(toolSecond)
    /\ toolSecond # <<"none", [at |-> "", exe |-> ""]>> =>
          toolFirst[2] # toolSecond[2]

=============================================================================
